---- MODULE Spec2Model ----
(***************************************************************************)
(* Question-identity reconciliation and answer alignment of Educheck:      *)
(*   - the Answer Aligner      (services/paper_processor.py)               *)
(*   - the Canonical Index Builder (utils/gemini_processor.py)             *)
(*   - the remapping of a processed document (_process_single_file)        *)
(*   - the per-question scoring engine                                     *)
(*     (services/paper_processor_backup_before_integration.py)             *)
(*   - the rubric-design evaluation run and the feedback pass              *)
(*     (services/paper_processor.py)                                       *)
(*                                                                         *)
(* A label is a Python str, modelled as a sequence of one-character        *)
(* strings, so that strip(), lower() and the regex r'(\d+)' are computed   *)
(* and not assumed.  A Python dict is a sequence of [k, v] records with    *)
(* distinct keys, in insertion order.  None (as a dict value) is NoneV;    *)
(* a failed regex search is the empty sequence.                            *)
(***************************************************************************)
EXTENDS Integers, Sequences, FiniteSets, TLC

VARIABLES
    \* ---- Answer Aligner, called on its own ----
    ordered_questions,      \* argument: target label sequence
    raw_answers,            \* argument: [isNone, items] raw answer mapping
    aligned,                \* the returned mapping
    alignPc,                \* "call" | "done"
    \* ---- one document going through _process_single_file ----
    raw_parsed,             \* what parse_pages_to_structure returned
    answers_original,       \* what resolve_mcq_ambiguity returned
    structured,             \* what normalize_parsed_structure returned
    doc,                    \* the document handed to db[doc_type].insert_one
    filePc,                 \* "parsed" | "stored" | "stored_after_remap_error"
    \* ---- evaluate_student_answers (per-question design) ----
    answer_key_doc,         \* latest db.answer_key document, [present |-> FALSE] if none
    student_doc,            \* the db.student_answer document being scored
    qIdx,                   \* position of the scoring loop in ordered_questions
    per_question_results,   \* dict qid -> detail
    missed_questions,       \* list of qids with no student answer
    total_obtained,         \* running total of the awarded marks
    results,                \* db.results collection
    evalPc,                 \* "start" | "scoring" | "stored" | "aborted"
    \* ---- evaluate_student_answers (rubric design, paper_processor.py) ----
    qp_doc,                 \* latest db.question_paper document
    ak_doc,                 \* latest db.answer_key document
    student_answer,         \* db.student_answer collection
    cursor,                 \* students the run still has to grade
    runPc,                  \* "start" | "grading" | "finished" | "aborted_..."
    \* ---- the text-generation collaborator and the clock ----
    gemini,                 \* [is_available, quota_exhausted]
    now,                    \* datetime.utcnow(), counted in passes
    \* ---- GeminiProcessor: the key pool and one _call_model call ----
    api_keys,               \* self.api_keys
    current_key_idx,        \* self.current_key_idx, -1 when no key is configured
    model,                  \* key self.model was built with, NoModel when None
    bad_keys,               \* self.bad_keys
    key_cooldowns,          \* self.key_cooldowns: key -> epoch until
    quota_exhausted_until,  \* self.quota_exhausted_until
    clock,                  \* time.time(), in seconds
    retries,                \* argument of the call in progress
    attempt,                \* loop variable of the call in progress
    last_exc,               \* last_exc of the call in progress
    worker,                 \* the thread running _generate after a timeout
    invocations,            \* generate_content calls of the call in progress
    timeouts,               \* attempts of the call in progress that timed out
    sleeps,                 \* time.sleep calls of the call in progress
    last_invocation,        \* the last generate_content call and its outcome
    calls,                  \* _call_model calls made so far
    callPc,                 \* "idle" | "attempt" | "executor_exit" | "returned" | "raised"
    \* ---- sorting labels by _natural_sort_key ----
    sort_labels,            \* the collection handed to sorted(..., key=_natural_sort_key)
    sort_result,            \* [raised, value]
    sortPc,                 \* "call" | "done"
    \* ---- parse_pages_to_structure, called by _process_single_file ----
    pages,                  \* the question labels the regex patterns find in the OCR text
    parse_reply,            \* what the structured-parse collaborator does
    parse_result,           \* raw_parsed of _process_single_file
    parse_error,            \* exception that left parse_pages_to_structure, "none" if none
    parsePc,                \* "call" | "done"
    \* ---- _flatten_questions_from_parts ----
    flat_parts,             \* the parts argument
    parts_after,            \* the argument object after the call
    flat,                   \* the returned list
    flatPc                  \* "call" | "done"

alignVars == <<ordered_questions, raw_answers, aligned, alignPc>>
fileVars  == <<raw_parsed, answers_original, structured, doc, filePc>>
evalVars  == <<answer_key_doc, student_doc, qIdx, per_question_results,
               missed_questions, total_obtained, results, evalPc>>
runVars   == <<qp_doc, ak_doc, student_answer, cursor, runPc>>
svcVars   == <<gemini, now>>
callVars  == <<api_keys, current_key_idx, model, bad_keys, key_cooldowns,
               quota_exhausted_until, clock, retries, attempt, last_exc, worker,
               invocations, timeouts, sleeps, last_invocation, calls, callPc>>
sortVars  == <<sort_labels, sort_result, sortPc>>
parseVars == <<pages, parse_reply, parse_result, parse_error, parsePc>>
flatVars  == <<flat_parts, parts_after, flat, flatPc>>
pureVars  == <<sortVars, parseVars, flatVars>>
extVars   == <<callVars, pureVars>>
vars == <<alignVars, fileVars, evalVars, runVars, svcVars, extVars>>

----------------------------------------------------------------------------
(* Bounds of the model *)

MaxTargets == 2     \* longest target label sequence
MaxRaw     == 2     \* most entries of a raw answer mapping
MaxLabels  == 2     \* longest ordered_questions_original of a parsed document
MaxAnswers == 2     \* most entries of a parsed document's answer_map
MaxStudents == 2    \* most documents of db.student_answer
MaxResults == 2     \* most records of db.results before a feedback pass
MaxPasses  == 2     \* most feedback passes and evaluation re-runs
MaxKeys    == 2     \* most keys of GEMINI_API_KEYS
MaxCalls   == 2     \* most _call_model calls of one processor
MaxQuestions == 3   \* most questions of a scored sheet

----------------------------------------------------------------------------
(* Python values *)

NoneV == "<None>"           \* Python None as a dict value
EmptyAns == ""              \* the canonical empty answer

\* label strings used as targets and as raw keys
TargetLabels ==
    { <<"1">>, <<" ", "1">>, <<"2", "a">>, <<"2", "b">>, <<"b">> }
RawLabels ==
    { <<" ", "1">>, <<"2", "a">>, <<"2", "A">>, <<"Q", "2">>, <<"b">> }
RawValues == { "X", "Y", NoneV }

Range(s) == { s[i] : i \in 1..Len(s) }

\* x if x is not None else ""
NoneToEmpty(v) == IF v = NoneV THEN EmptyAns ELSE v

IsDigit(c) == c \in {"0", "1", "2", "3", "4", "5", "6", "7", "8", "9"}

\* str.lower() on one character
LowerChar(c) ==
    CASE c = "A" -> "a"
      [] c = "B" -> "b"
      [] c = "C" -> "c"
      [] c = "D" -> "d"
      [] c = "Q" -> "q"
      [] OTHER   -> c

lower(s) == [i \in 1..Len(s) |-> LowerChar(s[i])]

RECURSIVE lstrip(_)
lstrip(s) == IF s = <<>> THEN s
             ELSE IF s[1] = " " THEN lstrip(Tail(s)) ELSE s

RECURSIVE rstrip(_)
rstrip(s) == IF s = <<>> THEN s
             ELSE IF s[Len(s)] = " " THEN rstrip(SubSeq(s, 1, Len(s) - 1)) ELSE s

strip(s) == rstrip(lstrip(s))

\* re.search(r'(\d+)', label).group(1): the first maximal run of digits,
\* <<>> when there is no digit (the search returns None)
numeric_key(label) ==
    IF \A i \in 1..Len(label) : ~IsDigit(label[i]) THEN <<>>
    ELSE LET b == CHOOSE i \in 1..Len(label) :
                      /\ IsDigit(label[i])
                      /\ \A j \in 1..(i - 1) : ~IsDigit(label[j])
             e == CHOOSE i \in b..Len(label) :
                      /\ \A j \in b..i : IsDigit(label[j])
                      /\ (i = Len(label) \/ ~IsDigit(label[i + 1]))
         IN  SubSeq(label, b, e)

----------------------------------------------------------------------------
(* Python dict: sequence of [k |-> key, v |-> value], keys distinct *)

DictKeys(d) == [i \in 1..Len(d) |-> d[i].k]
DictHas(d, key) == \E i \in 1..Len(d) : d[i].k = key
DictGet(d, key, default) ==
    IF DictHas(d, key)
    THEN d[CHOOSE i \in 1..Len(d) : d[i].k = key].v
    ELSE default
\* d[key] = value: an existing key keeps its position, a new key is appended
DictSet(d, key, value) ==
    IF DictHas(d, key)
    THEN [i \in 1..Len(d) |-> IF d[i].k = key THEN [k |-> key, v |-> value] ELSE d[i]]
    ELSE Append(d, [k |-> key, v |-> value])

IsDict(d) == \A i, j \in 1..Len(d) : d[i].k = d[j].k => i = j

\* all dicts with at most n entries, keys from K, values from V
DictsOver(K, V, n) ==
    { d \in UNION { [1..m -> [k : K, v : V]] : m \in 0..n } : IsDict(d) }

SeqsOver(S, n) == UNION { [1..m -> S] : m \in 0..n }

----------------------------------------------------------------------------
(* Answer Aligner: _align_answers_to_order *)

\* raw_answers or {}
OrEmptyDict(arg) == IF arg.isNone THEN <<>> ELSE arg.items

\* the lowercase lookup raw_map[str(k).strip().lower()] = v
RECURSIVE build_raw_map(_, _)
build_raw_map(items, acc) ==
    IF items = <<>> THEN acc
    ELSE build_raw_map(Tail(items),
                       DictSet(acc, lower(strip(Head(items).k)), Head(items).v))

\* (mutation of first_numeric_match: the last match wins)
last_numeric_match(raw_map, oq_num) ==
    LET hits == { i \in 1..Len(raw_map) :
                    /\ numeric_key(raw_map[i].k) # <<>>
                    /\ numeric_key(raw_map[i].k) = oq_num }
    IN  IF hits = {} THEN EmptyAns
        ELSE raw_map[CHOOSE i \in hits : \A j \in hits : i >= j].v

\* the numeric-prefix search over raw_map, first match wins
first_numeric_match(raw_map, oq_num) ==
    LET hits == { i \in 1..Len(raw_map) :
                    /\ numeric_key(raw_map[i].k) # <<>>
                    /\ numeric_key(raw_map[i].k) = oq_num }
    IN  IF hits = {} THEN EmptyAns
        ELSE raw_map[CHOOSE i \in hits : \A j \in hits : i <= j].v

\* the value computed for one target label (body of the for loop)
align_one(raw_map, oq) ==
    LET oq_norm == strip(oq)
        oq_key  == lower(oq_norm)
        ans     == IF DictHas(raw_map, oq_key)
                   THEN DictGet(raw_map, oq_key, EmptyAns)
                   ELSE IF numeric_key(oq_norm) # <<>>
                        THEN first_numeric_match(raw_map, numeric_key(oq_norm))
                        ELSE EmptyAns
    IN  IF ans = NoneV THEN EmptyAns ELSE ans

\* (mutation of align_loop: a target with no answer gets no entry)
RECURSIVE align_loop_omit_missing(_, _, _)
align_loop_omit_missing(targets, raw_map, acc) ==
    IF targets = <<>> THEN acc
    ELSE align_loop_omit_missing(Tail(targets), raw_map,
            IF align_one(raw_map, Head(targets)) = EmptyAns THEN acc
            ELSE DictSet(acc, strip(Head(targets)), align_one(raw_map, Head(targets))))

RECURSIVE align_loop(_, _, _)
align_loop(targets, raw_map, acc) ==
    IF targets = <<>> THEN acc
    ELSE align_loop(Tail(targets), raw_map,
                    DictSet(acc, strip(Head(targets)), align_one(raw_map, Head(targets))))

align_answers_to_order(targets, raw) ==
    IF targets = <<>> THEN <<>>
    ELSE align_loop(targets, build_raw_map(OrEmptyDict(raw), <<>>), <<>>)

----------------------------------------------------------------------------
(* Specification of the aligner called on its own *)

RawArgs ==
    { [isNone |-> FALSE, items |-> d] : d \in DictsOver(RawLabels, RawValues, MaxRaw) }
    \cup { [isNone |-> TRUE, items |-> <<>>] }

FileIdle ==
    /\ raw_parsed = [ordered_questions_original |-> <<>>, parts |-> <<>>, answer_map |-> <<>>]
    /\ answers_original = <<>>
    /\ structured = <<>>
    /\ doc = <<>>
    /\ filePc = "idle"

EvalIdle ==
    /\ answer_key_doc = [present |-> FALSE]
    /\ student_doc = [answer_map |-> <<>>]
    /\ qIdx = 0
    /\ per_question_results = <<>>
    /\ missed_questions = <<>>
    /\ total_obtained = 0
    /\ results = <<>>
    /\ evalPc = "idle"

RunIdle ==
    /\ qp_doc = [present |-> FALSE]
    /\ ak_doc = [present |-> FALSE]
    /\ student_answer = <<>>
    /\ cursor = <<>>
    /\ runPc = "idle"

CallIdle ==
    /\ api_keys = <<>>
    /\ current_key_idx = -1
    /\ model = 0
    /\ bad_keys = {}
    /\ key_cooldowns = <<>>
    /\ quota_exhausted_until = 0
    /\ clock = 0
    /\ retries = 0
    /\ attempt = 0
    /\ last_exc = "none"
    /\ worker = "none"
    /\ invocations = 0
    /\ timeouts = 0
    /\ sleeps = 0
    /\ last_invocation = [key |-> 0, outcome |-> "none", usable |-> TRUE]
    /\ calls = 0
    /\ callPc = "unused"

SortIdle ==
    /\ sort_labels = <<>>
    /\ sort_result = [raised |-> FALSE, value |-> <<>>]
    /\ sortPc = "idle"

ParseIdle ==
    /\ pages = <<>>
    /\ parse_reply = "none"
    /\ parse_result = <<>>
    /\ parse_error = "none"
    /\ parsePc = "idle"

FlatIdle ==
    /\ flat_parts = <<>>
    /\ parts_after = <<>>
    /\ flat = <<>>
    /\ flatPc = "idle"

ExtIdle ==
    /\ CallIdle
    /\ SortIdle
    /\ ParseIdle
    /\ FlatIdle

SvcIdle ==
    /\ gemini = [is_available |-> FALSE, quota_exhausted |-> FALSE]
    /\ now = 0
    /\ ExtIdle

AlignIdle ==
    /\ ordered_questions = <<>>
    /\ raw_answers = [isNone |-> TRUE, items |-> <<>>]
    /\ aligned = <<>>
    /\ alignPc = "idle"

InitAlign ==
    /\ ordered_questions \in SeqsOver(TargetLabels, MaxTargets)
    /\ raw_answers \in RawArgs
    /\ aligned = <<>>
    /\ alignPc = "call"
    /\ FileIdle
    /\ EvalIdle
    /\ RunIdle
    /\ SvcIdle

AlignAnswers ==
    /\ alignPc = "call"
    /\ aligned' = align_answers_to_order(ordered_questions, raw_answers)
    /\ alignPc' = "done"
    /\ UNCHANGED <<ordered_questions, raw_answers, fileVars, evalVars, runVars, svcVars, extVars>>

NextAlign == AlignAnswers
SpecAlign == InitAlign /\ [][NextAlign]_vars

----------------------------------------------------------------------------
(* Canonical Index Builder: GeminiProcessor.normalize_parsed_structure *)

DigitChar(n) ==
    CASE n = 0 -> "0" [] n = 1 -> "1" [] n = 2 -> "2" [] n = 3 -> "3"
      [] n = 4 -> "4" [] n = 5 -> "5" [] n = 6 -> "6" [] n = 7 -> "7"
      [] n = 8 -> "8" [] n = 9 -> "9"

\* str(n) for a natural number n
RECURSIVE str(_)
str(n) == IF n < 10 THEN <<DigitChar(n)>>
          ELSE str(n \div 10) \o <<DigitChar(n % 10)>>

\* step 1: the ordered list of original labels.  GeminiProcessor defines no
\* _flatten_questions_from_parts, so the call under "parts" raises
\* AttributeError and the except clause takes the answer_map keys.
ordered_labels_of(parsed_data) ==
    LET first == IF parsed_data.ordered_questions_original # <<>>
                 THEN parsed_data.ordered_questions_original
                 ELSE IF parsed_data.parts # <<>>
                      THEN DictKeys(parsed_data.answer_map)
                      ELSE <<>>
    IN  IF first = <<>> THEN DictKeys(parsed_data.answer_map) ELSE first

\* (mutation of consecutive_ids: numbering starts at 0)
consecutive_ids_from_zero(labels) == [i \in 1..Len(labels) |-> str(i - 1)]

\* ordered_questions_consecutive = [str(i+1) for i in range(len(labels))]
consecutive_ids(labels) == [i \in 1..Len(labels) |-> str(i)]

\* consec_to_label = {str(i+1): label for i, label in enumerate(labels)}
build_consec_to_label(labels) ==
    [i \in 1..Len(labels) |-> [k |-> consecutive_ids(labels)[i], v |-> labels[i]]]

\* label_to_consec = {label: str(i+1) for i, label in enumerate(labels)}:
\* a repeated label keeps its first slot and takes the last position
RECURSIVE build_label_to_consec(_, _, _)
build_label_to_consec(labels, i, acc) ==
    IF i > Len(labels) THEN acc
    ELSE build_label_to_consec(labels, i + 1,
                               DictSet(acc, labels[i], consecutive_ids(labels)[i]))

\* step 3, one label: answer_map.get(label), else the first entry whose key
\* equals the label ignoring case and surrounding whitespace, else ""
normalized_answer(answer_map_original, orig_label) ==
    LET direct == DictGet(answer_map_original, orig_label, NoneV)
        loose  == { i \in 1..Len(answer_map_original) :
                      lower(strip(answer_map_original[i].k)) = lower(strip(orig_label)) }
        answer == IF direct # NoneV THEN direct
                  ELSE IF loose = {} THEN NoneV
                  ELSE answer_map_original[CHOOSE i \in loose : \A j \in loose : i <= j].v
    IN  IF answer # NoneV THEN answer ELSE EmptyAns

normalize_parsed_structure(parsed_data) ==
    LET labels == ordered_labels_of(parsed_data)
        c2l    == build_consec_to_label(labels)
    IN  [ metadata                      |-> <<>>,
          parts                         |-> parsed_data.parts,
          answer_map_original           |-> parsed_data.answer_map,
          ordered_questions_original    |-> labels,
          ordered_questions_consecutive |-> consecutive_ids(labels),
          consec_to_label               |-> c2l,
          label_to_consec               |-> build_label_to_consec(labels, 1, <<>>),
          answers_consecutive_aligned   |->
              [i \in 1..Len(c2l) |->
                  [k |-> c2l[i].k,
                   v |-> normalized_answer(parsed_data.answer_map, c2l[i].v)]] ]

----------------------------------------------------------------------------
(* _process_single_file, from the normalisation of the parsed structure to
   the insert of the document (paper_processor.py:984-1075) *)

AuditKey(orig_norm) == <<"orig::">> \o orig_norm

\* for orig_label, ans in answers_aligned.items(): ... (lines 1025-1036)
RECURSIVE remap_to_consecutive(_, _, _)
remap_to_consecutive(answers_aligned, label_to_consec, acc) ==
    IF answers_aligned = <<>> THEN acc
    ELSE LET orig_norm == strip(Head(answers_aligned).k)
             ans    == Head(answers_aligned).v
             consec == IF DictHas(label_to_consec, orig_norm)
                       THEN DictGet(label_to_consec, orig_norm, <<>>)
                       ELSE numeric_key(orig_norm)
             key    == IF consec # <<>> THEN consec ELSE AuditKey(orig_norm)
         IN  remap_to_consecutive(Tail(answers_aligned), label_to_consec,
                 DictSet(acc, key, IF ans # NoneV THEN ans ELSE EmptyAns))

\* (mutation of fill_missing: positions without an entry are left out)
RECURSIVE fill_nothing(_, _, _)
fill_nothing(ordered, state, i) ==
    IF i > Len(ordered) THEN state ELSE fill_nothing(ordered, state, i + 1)

\* for q in ordered_questions: if q not in answers_consecutive_aligned: ...
\* state = [aca, missing]; used by the try block and by the except block
RECURSIVE fill_missing(_, _, _)
fill_missing(ordered, state, i) ==
    IF i > Len(ordered) THEN state
    ELSE fill_missing(ordered,
            IF DictHas(state.aca, ordered[i]) THEN state
            ELSE [aca     |-> DictSet(state.aca, ordered[i], EmptyAns),
                  missing |-> IF ordered[i] \in { state.missing[j] : j \in 1..Len(state.missing) }
                              THEN state.missing
                              ELSE Append(state.missing, ordered[i])],
            i + 1)

\* a or b for two dicts
OrDict(a, b) == IF a # <<>> THEN a ELSE b

\* the document built at lines 1055-1072; remapThrows: an exception leaves the
\* try block of lines 1019-1043 before it completes
build_doc(parsed, mcq_answers, remapThrows) ==
    LET st      == normalize_parsed_structure(parsed)
        ordered == st.ordered_questions_consecutive
        c2l     == st.consec_to_label
        l2c     == st.label_to_consec
        raw     == OrDict(st.answer_map_original, mcq_answers)
        targets == [i \in 1..Len(ordered) |-> DictGet(c2l, ordered[i], ordered[i])]
        answers_aligned ==
            IF ordered # <<>>
            THEN align_answers_to_order(targets, [isNone |-> FALSE, items |-> raw])
            ELSE raw
        filled  == IF remapThrows
                   THEN fill_missing(ordered,
                            [aca |-> st.answers_consecutive_aligned, missing |-> <<>>], 1)
                   ELSE fill_missing(ordered,
                            [aca |-> remap_to_consecutive(answers_aligned, l2c, <<>>),
                             missing |-> <<>>], 1)
    IN  [ structured                    |-> st,
          answers_original              |-> mcq_answers,
          answers_aligned               |-> IF remapThrows THEN raw ELSE answers_aligned,
          ordered_questions_original    |-> st.ordered_questions_original,
          ordered_questions_consecutive |-> ordered,
          label_to_consec               |-> l2c,
          consec_to_label               |-> c2l,
          answers_consecutive_aligned   |-> filled.aca,
          missing_questions             |-> filled.missing ]

FileLabels == { <<"1">>, <<" ", "1">>, <<"2", "a">>, <<"2", "b">>, <<" ", "b">> }
FileKeys   == { <<"1">>, <<"2", "a">>, <<"2", "A">>, <<"3">> }
FileValues == { "X", EmptyAns, NoneV }
McqAnswers == { <<>>, <<[k |-> <<"Q", "2">>, v |-> "X"]>> }
PartsValues == { <<>>, <<"Part A">> }

\* answers_original is read only when answer_map is empty, parts only when
\* ordered_questions_original is empty: they vary only there
InitFile ==
    /\ raw_parsed \in
          { [ordered_questions_original |-> o, parts |-> p, answer_map |-> a] :
              o \in SeqsOver(FileLabels, MaxLabels),
              p \in PartsValues,
              a \in DictsOver(FileKeys, FileValues, MaxAnswers) }
    /\ raw_parsed.ordered_questions_original # <<>> => raw_parsed.parts = <<"Part A">>
    /\ answers_original \in McqAnswers
    /\ raw_parsed.answer_map # <<>> => answers_original = <<>>
    /\ structured = <<>>
    /\ doc = <<>>
    /\ filePc = "parsed"
    /\ AlignIdle
    /\ EvalIdle
    /\ RunIdle
    /\ SvcIdle

\* the remapping completes
ProcessSingleFile ==
    /\ filePc = "parsed"
    /\ structured' = normalize_parsed_structure(raw_parsed)
    /\ doc' = build_doc(raw_parsed, answers_original, FALSE)
    /\ filePc' = "stored"
    /\ UNCHANGED <<raw_parsed, answers_original, alignVars, evalVars, runVars, svcVars, extVars>>

\* the remapping raises and the except block of lines 1044-1053 runs
ProcessSingleFileRemapError ==
    /\ filePc = "parsed"
    /\ structured' = normalize_parsed_structure(raw_parsed)
    /\ doc' = build_doc(raw_parsed, answers_original, TRUE)
    /\ filePc' = "stored_after_remap_error"
    /\ UNCHANGED <<raw_parsed, answers_original, alignVars, evalVars, runVars, svcVars, extVars>>

NextFile == ProcessSingleFile \/ ProcessSingleFileRemapError
SpecFile == InitFile /\ [][NextFile]_vars

----------------------------------------------------------------------------
(* Scoring engine: evaluate_student_answers of
   paper_processor_backup_before_integration.py.  Marks are counted in
   hundredths (round(x, 2) keeps two decimals); percentages returned by the
   collaborators are whole numbers. *)

\* question ids that the answer key and the student may answer
QIds == { <<"2">>, <<"1", "0">> }
KeyAnswers     == { EmptyAns, "A", "text" }
StudentAnswers == { EmptyAns, NoneV, " a", "B", "text" }
\* metadata total_marks after int(); 0 stands for "no total_marks" as well,
\* which the test "if total_marks_meta and num_questions" treats alike
TotalMarksMeta == { 0, 10 }
\* structured.parts of the answer key, in the order of sorted(parts.keys()):
\* a part is a dict (only its keys are read) or a list of items (only their
\* "id" is read, NoneV for an item without one)
DictPart(S) == [kind |-> "dict", keys |-> S, items |-> <<>>]
ListPart(q) == [kind |-> "list", keys |-> {}, items |-> q]
KeyParts ==
    { <<>>,
      << DictPart({ <<"1">>, <<"1", "0">>, <<"2">> }) >>,
      << DictPart({ <<"2">> }), ListPart(<< <<"1", "0">>, NoneV, <<"2">> >>) >> }

\* replies of the text-quality and similarity collaborators
Percents   == { 0, 100 }
IndReplies == [percent : Percents, feedback : { <<>>, <<"Good.">> }]

independent_weight == 60     \* default 0.6, in hundredths

CharCode(c) ==
    CASE c = " " -> 32 [] c = "0" -> 48 [] c = "1" -> 49 [] c = "2" -> 50
      [] c = "3" -> 51 [] c = "4" -> 52 [] c = "5" -> 53 [] c = "6" -> 54
      [] c = "7" -> 55 [] c = "8" -> 56 [] c = "9" -> 57 [] c = "A" -> 65
      [] c = "B" -> 66 [] c = "C" -> 67 [] c = "D" -> 68 [] c = "Q" -> 81
      [] c = "a" -> 97 [] c = "b" -> 98 [] c = "c" -> 99 [] c = "d" -> 100
      [] c = "i" -> 105 [] c = "q" -> 113

\* Python's < on two str
RECURSIVE str_less(_, _)
str_less(a, b) ==
    IF b = <<>> THEN FALSE
    ELSE IF a = <<>> THEN TRUE
    ELSE IF a[1] # b[1] THEN CharCode(a[1]) < CharCode(b[1])
    ELSE str_less(Tail(a), Tail(b))

\* int(digits)
RECURSIVE int_of(_)
int_of(digits) ==
    IF digits = <<>> THEN 0
    ELSE 10 * int_of(SubSeq(digits, 1, Len(digits) - 1))
         + (CharCode(digits[Len(digits)]) - 48)

RECURSIVE run_len(_, _)
run_len(s, digit) ==
    IF s = <<>> \/ IsDigit(s[1]) # digit THEN 0 ELSE 1 + run_len(Tail(s), digit)

\* re.split(r'(\d+)', x): text, digits, text, ..., text
RECURSIVE re_split_digits(_, _)
re_split_digits(s, digit) ==
    LET n == run_len(s, digit)
        rest == SubSeq(s, n + 1, Len(s))
    IN  IF digit THEN <<SubSeq(s, 1, n)>> \o re_split_digits(rest, FALSE)
        ELSE IF rest = <<>> THEN <<SubSeq(s, 1, n)>>
        ELSE <<SubSeq(s, 1, n)>> \o re_split_digits(rest, TRUE)

\* < on the keys [int(t) if t.isdigit() else t.lower() for t in re.split(...)]
RECURSIVE natural_key_less(_, _, _)
natural_key_less(ka, kb, i) ==
    IF i > Len(kb) THEN FALSE
    ELSE IF i > Len(ka) THEN TRUE
    ELSE IF i % 2 = 0
         THEN IF int_of(ka[i]) # int_of(kb[i]) THEN int_of(ka[i]) < int_of(kb[i])
              ELSE natural_key_less(ka, kb, i + 1)
         ELSE IF lower(ka[i]) # lower(kb[i]) THEN str_less(lower(ka[i]), lower(kb[i]))
              ELSE natural_key_less(ka, kb, i + 1)

natural_less(a, b) ==
    natural_key_less(re_split_digits(a, FALSE), re_split_digits(b, FALSE), 1)

\* sorted(S): plain string order
sorted(S) ==
    CHOOSE q \in [1..Cardinality(S) -> S] :
        \A i, j \in 1..Cardinality(S) : i < j => str_less(q[i], q[j])

\* sorted(S, key=lambda x: [...]): natural order
sorted_natural(S) ==
    CHOOSE q \in [1..Cardinality(S) -> S] :
        \A i, j \in 1..Cardinality(S) : i < j => natural_less(q[i], q[j])

\* lines 180-185 / 226-231: None becomes ""
none_as_empty(map) == [i \in 1..Len(map) |-> [k |-> map[i].k, v |-> NoneToEmpty(map[i].v)]]

\* lines 203-205: the ids of the items of a list part that have one
RECURSIVE list_part_ids(_)
list_part_ids(items) ==
    IF items = <<>> THEN <<>>
    ELSE IF Head(items) # NoneV THEN <<Head(items)>> \o list_part_ids(Tail(items))
    ELSE list_part_ids(Tail(items))

\* lines 198-205: the parts in name order, each one's questions appended
RECURSIVE parts_questions(_)
parts_questions(parts) ==
    IF parts = <<>> THEN <<>>
    ELSE (IF Head(parts).kind = "dict" THEN sorted(Head(parts).keys)
          ELSE list_part_ids(Head(parts).items))
         \o parts_questions(Tail(parts))

\* lines 195-209: order from the parts, else the answer_map keys sorted naturally
eval_ordered_questions(akd) ==
    IF parts_questions(akd.parts) # <<>> THEN parts_questions(akd.parts)
    ELSE sorted_natural(Range(DictKeys(akd.answer_map)))

\* round(n / d, 0) for naturals, ties to even as Python's round
RoundDiv(n, d) ==
    LET q == n \div d
        r == n % d
    IN  IF 2 * r < d THEN q
        ELSE IF 2 * r > d THEN q + 1
        ELSE IF q % 2 = 0 THEN q ELSE q + 1

\* lines 211-217, in hundredths of a mark
per_q_mark(akd) ==
    LET num_questions == Len(eval_ordered_questions(akd))
    IN  IF akd.total_marks # 0 /\ num_questions # 0
        THEN RoundDiv(100 * akd.total_marks, num_questions)
        ELSE 100

total_marks(akd) ==
    LET num_questions == Len(eval_ordered_questions(akd))
    IN  IF akd.total_marks # 0 /\ num_questions # 0
        THEN 100 * akd.total_marks
        ELSE 100 * num_questions

\* str(x).strip() and .upper() on the answer strings of the model
answer_strip(a) == IF a = " a" THEN "a" ELSE a
answer_upper(a) ==
    CASE a = "a" -> "A" [] a = "b" -> "B" [] a = "c" -> "C" [] a = "d" -> "D"
      [] a = "text" -> "TEXT" [] OTHER -> a
\* re.fullmatch(r'[A-Da-d]', str(x).strip())
is_mcq_letter(a) == answer_strip(a) \in {"A", "B", "C", "D", "a", "b", "c", "d"}

detail0(qid, s_ans, c_ans, mark) ==
    [ question_id |-> qid, student_answer |-> s_ans, correct_answer |-> c_ans,
      awarded |-> 0, max_marks |-> mark, final_percent |-> 0,
      feedback |-> <<>>, reason |-> "" ]

\* the branches of lines 262-301 (student answer and key both present)
score_answered(d, s_ans, c_ans, mark, ind, sim_pct) ==
    IF is_mcq_letter(c_ans)
    THEN IF is_mcq_letter(s_ans)
         THEN IF answer_upper(answer_strip(s_ans)) = answer_upper(answer_strip(c_ans))
              THEN [d EXCEPT !.awarded = mark, !.final_percent = 10000,
                             !.feedback = <<"Correct MCQ.">>,
                             !.reason = "mcq correct"]
              ELSE [d EXCEPT !.feedback = <<"Incorrect. Expected ", c_ans, ".">>,
                             !.reason = "mcq incorrect"]
         ELSE [d EXCEPT !.final_percent = 100 * ind.percent,
                        !.awarded = RoundDiv(ind.percent * mark, 100),
                        !.feedback = ind.feedback,
                        !.reason = "mcq key present but student text answer - independent eval"]
    ELSE LET final_pct == independent_weight * ind.percent
                          + (100 - independent_weight) * sim_pct
         IN  [d EXCEPT !.final_percent = final_pct,
                       !.awarded = RoundDiv(final_pct * mark, 10000),
                       !.feedback = ind.feedback \o <<" Similarity: ">> \o str(sim_pct) \o <<"%">>,
                       !.reason = "descriptive combined eval"]

\* (mutation of score_question: the key is looked at before the student answer)
score_question_key_first(qid, s_ans, c_ans, mark, ind, sim_pct) ==
    LET d == detail0(qid, s_ans, c_ans, mark)
    IN  IF c_ans = EmptyAns
        THEN [d EXCEPT !.reason = "no answer key",
                       !.feedback = <<"No answer key provided for this question.">>]
        ELSE IF s_ans = EmptyAns
        THEN [d EXCEPT !.reason = "no student answer",
                       !.feedback = <<"No answer provided.">>]
        ELSE score_answered(d, s_ans, c_ans, mark, ind, sim_pct)

\* (mutation of score_question: the test of the key is missing)
score_question_no_key_test(qid, s_ans, c_ans, mark, ind, sim_pct) ==
    LET d == detail0(qid, s_ans, c_ans, mark)
    IN  IF s_ans = EmptyAns
        THEN [d EXCEPT !.reason = "no student answer",
                       !.feedback = <<"No answer provided.">>]
        ELSE score_answered(d, s_ans, c_ans, mark, ind, sim_pct)

\* lines 241-301: the detail of one question
score_question(qid, s_ans, c_ans, mark, ind, sim_pct) ==
    LET d == detail0(qid, s_ans, c_ans, mark)
    IN  IF s_ans = EmptyAns
        THEN [d EXCEPT !.reason = "no student answer",
                       !.feedback = <<"No answer provided.">>]
        ELSE IF c_ans = EmptyAns
        THEN [d EXCEPT !.reason = "no answer key",
                       !.feedback = <<"No answer key provided for this question.">>]
        ELSE score_answered(d, s_ans, c_ans, mark, ind, sim_pct)

\* the sum of the awarded marks of a per_question dict
RECURSIVE sum_awarded(_)
sum_awarded(pq) == IF pq = <<>> THEN 0 ELSE Head(pq).v.awarded + sum_awarded(Tail(pq))

\* (mutation of record_result: a question the student left empty is not stored)
record_result_answered_only(pq, qid, d) ==
    IF d.student_answer = EmptyAns THEN pq ELSE DictSet(pq, qid, d)

\* line 303: per_question_results[qid] = detail
record_result(pq, qid, d) == DictSet(pq, qid, d)

\* line 317: round((total_obtained / total_marks) * 100, 2) if total_marks > 0
\* else 0, in hundredths of a percent
percentage_of(obtained, tm) ==
    IF tm > 0 THEN RoundDiv(obtained * 10000, tm) ELSE 0

\* feedback_generated_at of a record no pass has handled
NoTime == -1

\* lines 309-320: the result document; while the feedback fields are absent
\* feedback is <<>>, feedback_generated FALSE and feedback_generated_at NoTime
result_doc(pq, missed, obtained, tm) ==
    [ per_question    |-> pq,
      per_question_type |-> "dict",
      missed_questions |-> missed,
      total_obtained  |-> obtained,
      total_marks     |-> tm,
      percentage      |-> percentage_of(obtained, tm),
      feedback        |-> <<>>,
      feedback_generated |-> FALSE,
      feedback_generated_at |-> NoTime ]

\* the maps from some of the QIds to V, entries in one fixed order (the order
\* of the entries of these maps is never read: both are only looked up by key)
KeyOrderedDicts(V) ==
    { d \in DictsOver(QIds, V, Cardinality(QIds)) :
        \A i, j \in 1..Len(d) : i < j => natural_less(d[i].k, d[j].k) }

InitEval ==
    /\ answer_key_doc \in
          { [present |-> FALSE] }
          \cup { [present |-> TRUE, answer_map |-> a, parts |-> p, total_marks |-> t] :
                   a \in KeyOrderedDicts(KeyAnswers),
                   p \in KeyParts, t \in TotalMarksMeta }
    /\ student_doc \in
          { [answer_map |-> a] : a \in KeyOrderedDicts(StudentAnswers) }
    /\ qIdx = 0
    /\ per_question_results = <<>>
    /\ missed_questions = <<>>
    /\ total_obtained = 0
    /\ results = <<>>
    /\ evalPc = "start"
    /\ AlignIdle
    /\ FileIdle
    /\ RunIdle
    /\ SvcIdle

\* lines 171-174: no answer key
EvaluateAbort ==
    /\ evalPc = "start"
    /\ ~answer_key_doc.present
    /\ evalPc' = "aborted"
    /\ UNCHANGED <<answer_key_doc, student_doc, qIdx, per_question_results,
                   missed_questions, total_obtained, results,
                   alignVars, fileVars, runVars, svcVars, extVars>>

\* lines 176-235: the run is set up and the student's loop starts
EvaluateBegin ==
    /\ evalPc = "start"
    /\ answer_key_doc.present
    /\ qIdx' = 1
    /\ per_question_results' = <<>>
    /\ missed_questions' = <<>>
    /\ total_obtained' = 0
    /\ evalPc' = "scoring"
    /\ UNCHANGED <<answer_key_doc, student_doc, results,
                   alignVars, fileVars, runVars, svcVars, extVars>>

\* lines 237-304: one question of the student
ScoreQuestion ==
    /\ evalPc = "scoring"
    /\ qIdx <= Len(eval_ordered_questions(answer_key_doc))
    /\ \E ind \in IndReplies, sim_pct \in Percents :
         LET qid   == eval_ordered_questions(answer_key_doc)[qIdx]
             c_ans == DictGet(none_as_empty(answer_key_doc.answer_map), qid, EmptyAns)
             s_ans == DictGet(none_as_empty(student_doc.answer_map), qid, EmptyAns)
             d     == score_question(qid, s_ans, c_ans, per_q_mark(answer_key_doc),
                                     ind, sim_pct)
         IN  /\ per_question_results' = record_result(per_question_results, qid, d)
             /\ total_obtained' = total_obtained + d.awarded
             /\ missed_questions' = IF s_ans = EmptyAns
                                    THEN Append(missed_questions, qid)
                                    ELSE missed_questions
    /\ qIdx' = qIdx + 1
    /\ UNCHANGED <<answer_key_doc, student_doc, results, evalPc,
                   alignVars, fileVars, runVars, svcVars, extVars>>

\* lines 306-326: the result document is built and inserted
StoreResult ==
    /\ evalPc = "scoring"
    /\ qIdx > Len(eval_ordered_questions(answer_key_doc))
    /\ LET tm == total_marks(answer_key_doc)
       IN  results' = Append(results,
              result_doc(per_question_results, missed_questions, total_obtained, tm))
    /\ evalPc' = "stored"
    /\ UNCHANGED <<answer_key_doc, student_doc, qIdx, per_question_results,
                   missed_questions, total_obtained,
                   alignVars, fileVars, runVars, svcVars, extVars>>

NextEval == EvaluateAbort \/ EvaluateBegin \/ ScoreQuestion \/ StoreResult
SpecEval == InitEval /\ [][NextEval]_vars

----------------------------------------------------------------------------
(* evaluate_student_answers of paper_processor.py (lines 1171-1300): one
   rubric for the exam, one grading call per student.  Marks are counted in
   hundredths. *)

AbsentDoc == [present |-> FALSE, text |-> "", metadata |-> <<>>]

\* corrected_text or raw_text of a document, and its metadata
DocTexts == { "", "text" }
QpMetadata == { <<>>, <<[k |-> "total_marks", v |-> 10]>> }
AkMetadata == { <<>>, <<[k |-> "total_marks", v |-> 0]>> }

StudentTexts == { "", "text" }
EvaluationStatuses == { NoneV, "completed", "failed_grading" }

\* replies of gemini.generate_rubric: an exception, no rubric items, a rubric
RubricReplies == { "raise", "empty", "rubric" }

\* replies of gemini.grade_answer_with_rubric: an exception, a reply with an
\* "error" key, or total_score_awarded with a grading_analysis
GradingAnalyses ==
    { <<>>,
      <<[concept |-> "c1", score_awarded |-> 0]>>,
      <<[concept |-> NoneV, score_awarded |-> 0]>>,
      <<[concept |-> "c1", score_awarded |-> 500]>> }
GradeReplies ==
    { [kind |-> "raise", total_score_awarded |-> 0, grading_analysis |-> <<>>],
      [kind |-> "error", total_score_awarded |-> 0, grading_analysis |-> <<>>] }
    \cup { [kind |-> "ok", total_score_awarded |-> t, grading_analysis |-> a] :
             t \in {0, 500}, a \in GradingAnalyses }

default_total_marks == 3500     \* meta.get("total_marks", 35)

\* (mutation of authoritative_documents_missing: only the answer key is looked for)
only_answer_key_missing(qp, ak) == ~ak.present

\* lines 1183-1188
authoritative_documents_missing(qp, ak) == ~qp.present \/ ~ak.present

\* lines 1195-1199
run_total_marks(qp, ak) ==
    LET meta == OrDict(qp.metadata, ak.metadata)
    IN  IF DictHas(meta, "total_marks") THEN 100 * DictGet(meta, "total_marks", 0)
        ELSE default_total_marks

\* line 1232: the students whose evaluation_status is not "completed"
RECURSIVE not_completed(_, _)
not_completed(students, i) ==
    IF i > Len(students) THEN <<>>
    ELSE (IF students[i].evaluation_status # "completed" THEN <<i>> ELSE <<>>)
         \o not_completed(students, i + 1)

\* line 1283: the concepts of the items awarded 0; "raise" for the KeyError of
\* an item without a concept
RECURSIVE missed_concepts(_)
missed_concepts(analysis) ==
    IF analysis = <<>> THEN <<>>
    ELSE LET rest == missed_concepts(Tail(analysis))
         IN  IF Head(analysis).score_awarded # 0 THEN rest
             ELSE IF Head(analysis).concept = NoneV \/ rest = "raise" THEN "raise"
             ELSE <<Head(analysis).concept>> \o rest

\* lines 1277 and 1286, in hundredths of a percent
final_percentage(obtained, tm) ==
    IF tm > 0 THEN RoundDiv(obtained * 10000, tm) ELSE 0

\* lines 1246-1256
failed_no_text_result(i, tm) ==
    [ student_filename |-> i, per_question |-> <<>>, per_question_type |-> "list",
      missed_questions |-> <<>>, total_obtained |-> 0, total_marks |-> tm,
      percentage |-> 0, evaluation_status |-> "failed_no_text",
      feedback |-> <<>>, feedback_generated |-> FALSE, feedback_generated_at |-> NoTime ]

\* lines 1279-1290
graded_result(i, tm, grade_json) ==
    [ student_filename |-> i, per_question |-> grade_json.grading_analysis,
      per_question_type |-> "list",
      missed_questions |-> missed_concepts(grade_json.grading_analysis),
      total_obtained |-> grade_json.total_score_awarded, total_marks |-> tm,
      percentage |-> final_percentage(grade_json.total_score_awarded, tm),
      evaluation_status |-> "completed",
      feedback |-> <<>>, feedback_generated |-> FALSE, feedback_generated_at |-> NoTime ]

\* the try block of lines 1263-1293 leaves by the except clause
grading_fails(grade_json) ==
    \/ grade_json.kind # "ok"
    \/ missed_concepts(grade_json.grading_analysis) = "raise"

SetStatus(students, i, status) ==
    [students EXCEPT ![i] = [@ EXCEPT !.evaluation_status = status]]

InitRun ==
    /\ qp_doc \in { AbsentDoc }
          \cup { [present |-> TRUE, text |-> t, metadata |-> m] :
                   t \in DocTexts, m \in QpMetadata }
    /\ ak_doc \in { AbsentDoc }
          \cup { [present |-> TRUE, text |-> t, metadata |-> m] :
                   t \in DocTexts, m \in AkMetadata }
    /\ student_answer \in
          SeqsOver([text : StudentTexts, evaluation_status : EvaluationStatuses],
                   MaxStudents)
    /\ gemini \in [is_available : BOOLEAN, quota_exhausted : BOOLEAN]
    /\ cursor = <<>>
    /\ runPc = "start"
    /\ now = 0
    /\ results = <<>>
    /\ answer_key_doc = [present |-> FALSE]
    /\ student_doc = [answer_map |-> <<>>]
    /\ qIdx = 0
    /\ per_question_results = <<>>
    /\ missed_questions = <<>>
    /\ total_obtained = 0
    /\ evalPc = "idle"
    /\ AlignIdle
    /\ FileIdle
    /\ ExtIdle

\* lines 1183-1188: no question paper or no answer key
RunAbortMissingDocument ==
    /\ runPc = "start"
    /\ authoritative_documents_missing(qp_doc, ak_doc)
    /\ runPc' = "aborted_missing_document"
    /\ UNCHANGED <<qp_doc, ak_doc, student_answer, cursor,
                   alignVars, fileVars, evalVars, svcVars, extVars>>

\* lines 1201-1203: the text of the question paper or of the answer key is empty
RunAbortEmptyText ==
    /\ runPc = "start"
    /\ ~authoritative_documents_missing(qp_doc, ak_doc)
    /\ qp_doc.text = "" \/ ak_doc.text = ""
    /\ runPc' = "aborted_empty_text"
    /\ UNCHANGED <<qp_doc, ak_doc, student_answer, cursor,
                   alignVars, fileVars, evalVars, svcVars, extVars>>

\* lines 1205-1229: the rubric cannot be generated, all evaluations are aborted
RunRubricFails ==
    /\ runPc = "start"
    /\ ~authoritative_documents_missing(qp_doc, ak_doc)
    /\ qp_doc.text # "" /\ ak_doc.text # ""
    /\ \E rubric_data \in RubricReplies :
          \/ ~gemini.is_available
          \/ gemini.quota_exhausted
          \/ rubric_data \in {"raise", "empty"}
    /\ runPc' = "aborted_rubric"
    /\ UNCHANGED <<qp_doc, ak_doc, student_answer, cursor,
                   alignVars, fileVars, evalVars, svcVars, extVars>>

\* lines 1205-1232: the rubric is generated and the students are fetched
RunRubricGenerated ==
    /\ runPc = "start"
    /\ ~authoritative_documents_missing(qp_doc, ak_doc)
    /\ qp_doc.text # "" /\ ak_doc.text # ""
    /\ gemini.is_available /\ ~gemini.quota_exhausted
    /\ \E rubric_data \in RubricReplies : rubric_data = "rubric"
    /\ cursor' = not_completed(student_answer, 1)
    /\ runPc' = "grading"
    /\ UNCHANGED <<qp_doc, ak_doc, student_answer,
                   alignVars, fileVars, evalVars, svcVars, extVars>>

\* lines 1234-1298: one student of the loop
GradeStudent ==
    /\ runPc = "grading"
    /\ cursor # <<>>
    /\ LET i  == Head(cursor)
           tm == run_total_marks(qp_doc, ak_doc)
       IN  IF student_answer[i].text = ""
           THEN /\ results' = Append(results, failed_no_text_result(i, tm))
                /\ student_answer' = SetStatus(student_answer, i, "failed_no_text")
           ELSE \E grade_json \in GradeReplies :
                  IF grading_fails(grade_json)
                  THEN /\ results' = results
                       /\ student_answer' = SetStatus(student_answer, i, "failed_grading")
                  ELSE /\ results' = Append(results, graded_result(i, tm, grade_json))
                       /\ student_answer' = SetStatus(student_answer, i, "completed")
    /\ cursor' = Tail(cursor)
    /\ UNCHANGED <<qp_doc, ak_doc, runPc, answer_key_doc, student_doc, qIdx,
                   per_question_results, missed_questions, total_obtained, evalPc,
                   alignVars, fileVars, svcVars, extVars>>

\* line 1300: the loop is over
RunFinish ==
    /\ runPc = "grading"
    /\ cursor = <<>>
    /\ runPc' = "finished"
    /\ UNCHANGED <<qp_doc, ak_doc, student_answer, cursor,
                   alignVars, fileVars, evalVars, svcVars, extVars>>

\* evaluate_student_answers is called again, at a later time and with the
\* collaborator in whatever state it is then
RunAgain ==
    /\ runPc \in {"finished", "aborted_missing_document", "aborted_empty_text",
                  "aborted_rubric"}
    /\ now < MaxPasses
    /\ now' = now + 1
    /\ gemini' \in [is_available : BOOLEAN, quota_exhausted : BOOLEAN]
    /\ runPc' = "start"
    /\ UNCHANGED <<qp_doc, ak_doc, student_answer, cursor,
                   alignVars, fileVars, evalVars, extVars>>

NextRun ==
    \/ RunAbortMissingDocument
    \/ RunAbortEmptyText
    \/ RunRubricFails
    \/ RunRubricGenerated
    \/ GradeStudent
    \/ RunFinish
    \/ RunAgain
SpecRun == InitRun /\ [][NextRun]_vars

----------------------------------------------------------------------------
(* generate_feedback_for_students (paper_processor.py:1301-1334, the same
   text as lines 328-361 of the per-question design).  One pass handles every
   record the query returns. *)

\* replies of gemini.model.generate_content(prompt): an exception, a response
\* without text, a response with text
FeedbackReplies == { "raise", NoneV, "Summary." }

\* lines 1308-1313: " ".join(f"{qk}: {fb}" for the entries with a feedback)
RECURSIVE aggregated_feedback(_)
aggregated_feedback(per_q) ==
    IF per_q = <<>> THEN <<>>
    ELSE LET fb   == Head(per_q).v.feedback
             rest == aggregated_feedback(Tail(per_q))
         IN  IF fb = <<>> THEN rest
             ELSE Head(per_q).k \o <<": ">> \o fb
                  \o (IF rest = <<>> THEN <<>> ELSE <<" ">> \o rest)

\* lines 1324-1331: the update of one record
set_feedback(res, aggregated, t) ==
    [res EXCEPT !.feedback = aggregated,
                !.feedback_generated = TRUE,
                !.feedback_generated_at = t]

\* lines 1306-1334, one record: a per_question that is a list has no items()
\* and the except clause leaves the record as it is, as does a failing call
feedback_for_record(res, reply, is_available, t) ==
    IF res.per_question_type # "dict" THEN res
    ELSE LET aggregated == aggregated_feedback(res.per_question)
         IN  IF aggregated = <<>> /\ is_available
             THEN IF reply = "raise" THEN res
                  ELSE set_feedback(res, IF reply = NoneV THEN <<>> ELSE <<reply>>, t)
             ELSE set_feedback(res, aggregated, t)

\* (mutation of unflagged: the query has no filter)
every_record(recs) == 1..Len(recs)

\* line 1305: db.results.find({"feedback_generated": {"$ne": True}})
unflagged(recs) == { i \in 1..Len(recs) : ~recs[i].feedback_generated }

\* per_question dicts as the per-question scoring leaves them: no question,
\* a question without feedback, one with feedback, one of each
NoFeedbackDetail ==
    score_question(<<"2">>, "text", "A", 100, [percent |-> 0, feedback |-> <<>>], 0)
FeedbackDetail ==
    score_question(<<"1", "0">>, EmptyAns, "A", 100, [percent |-> 0, feedback |-> <<>>], 0)
StoredPerQuestions ==
    { <<>>,
      <<[k |-> <<"2">>, v |-> NoFeedbackDetail]>>,
      <<[k |-> <<"1", "0">>, v |-> FeedbackDetail]>>,
      <<[k |-> <<"2">>, v |-> NoFeedbackDetail], [k |-> <<"1", "0">>, v |-> FeedbackDetail]>> }

\* records without the flag, written by either evaluate_student_answers
UnflaggedRecords ==
    { result_doc(pq, <<>>, sum_awarded(pq), 100 * Len(pq)) : pq \in StoredPerQuestions }
    \cup { failed_no_text_result(1, 1000),
           graded_result(1, 1000, [kind |-> "ok", total_score_awarded |-> 500,
                                   grading_analysis |->
                                       <<[concept |-> "c1", score_awarded |-> 500]>>]) }

\* and the records an earlier pass has flagged
StoredRecords ==
    UnflaggedRecords
    \cup { feedback_for_record(res, "Summary.", TRUE, 0) : res \in UnflaggedRecords }

InitFeedback ==
    /\ results \in SeqsOver(StoredRecords, MaxResults)
    /\ gemini \in [is_available : BOOLEAN, quota_exhausted : {FALSE}]
    /\ now = 0
    /\ answer_key_doc = [present |-> FALSE]
    /\ student_doc = [answer_map |-> <<>>]
    /\ qIdx = 0
    /\ per_question_results = <<>>
    /\ missed_questions = <<>>
    /\ total_obtained = 0
    /\ evalPc = "idle"
    /\ AlignIdle
    /\ FileIdle
    /\ RunIdle
    /\ ExtIdle

\* lines 1301-1334: one pass over db.results
FeedbackPass(Replies) ==
    /\ now < MaxPasses
    /\ now' = now + 1
    /\ \E replies \in [1..Len(results) -> Replies] :
          results' = [i \in 1..Len(results) |->
                        IF i \in unflagged(results)
                        THEN feedback_for_record(results[i], replies[i],
                                                 gemini.is_available, now')
                        ELSE results[i]]
    /\ UNCHANGED <<answer_key_doc, student_doc, qIdx, per_question_results,
                   missed_questions, total_obtained, evalPc, gemini,
                   alignVars, fileVars, runVars, extVars>>

GenerateFeedback == FeedbackPass(FeedbackReplies)

NextFeedback == GenerateFeedback
SpecFeedback == InitFeedback /\ [][NextFeedback]_vars

\* a pass made after an evaluation run has ended, with the collaborator
\* available and every generate_content call answered
GenerateFeedbackAfterRun ==
    /\ runPc \in {"finished", "aborted_missing_document", "aborted_empty_text",
                  "aborted_rubric"}
    /\ gemini.is_available
    /\ FeedbackPass(FeedbackReplies \ {"raise"})

NextRunFeedback == NextRun \/ GenerateFeedbackAfterRun
SpecRunFeedback == InitRun /\ [][NextRunFeedback]_vars

----------------------------------------------------------------------------
(* GeminiProcessor: the key pool and _call_model
   (utils/gemini_processor.py:45-141, 288-380).  A key is the number of its
   place in GEMINI_API_KEYS; time is counted in seconds.  One Attempt is one
   iteration of the loop of line 332, error handling and backoff included. *)

NoModel == 0
NoHint == -1
\* the number N of "Please retry in N" in the text of a quota error
RetryHints == {NoHint, 0, 1000}
\* the retries argument of a call
RetriesArgs == {0, 1, 2}
Outcomes == {"ok", "timeout", "quota", "auth", "other"}
\* seconds between the return of one _call_model call and the next call
Elapsed == {0, 300}
\* seconds a timed-out _generate keeps running after future.result gave up
LateSeconds == {60}
per_attempt_timeout == 240
backoff_seconds == 2

RECURSIVE pow2(_)
pow2(n) == IF n <= 0 THEN 1 ELSE 2 * pow2(n - 1)

\* line 332: range(1, max(1, retries) + 1)
last_attempt(r) == IF r < 1 THEN 1 ELSE r

\* lines 116-118
is_key_on_cooldown(cds, key, t) == cds[key] > t

\* lines 121-122
mark_key_cooldown(cds, key, seconds, t) ==
    [cds EXCEPT ![key] = t + (IF seconds < 1 THEN 1 ELSE seconds)]

\* lines 348-351
quota_cooldown(hint) ==
    IF hint = NoHint THEN 120
    ELSE IF hint + 5 < 300 THEN hint + 5 ELSE 300

\* lines 96-113: fails holds the keys genai rejects
configure_model_for_key(pool, key, idx, cds, t, fails) ==
    IF key \in pool.bad_keys \/ is_key_on_cooldown(cds, key, t)
    THEN [ok |-> FALSE, pool |-> pool]
    ELSE IF key \in fails
    THEN [ok |-> FALSE, pool |-> [pool EXCEPT !.bad_keys = @ \cup {key}]]
    ELSE [ok |-> TRUE,
          pool |-> [pool EXCEPT !.model = key, !.current_key_idx = idx]]

\* lines 80-82: the keys are tried in order
RECURSIVE init_keys(_, _, _, _)
init_keys(keys, idx, pool, fails) ==
    IF idx >= Len(keys) THEN pool
    ELSE LET c == configure_model_for_key(pool, keys[idx + 1], idx,
                                          [k \in 1..Len(keys) |-> 0], 0, fails)
         IN  IF c.ok THEN c.pool ELSE init_keys(keys, idx + 1, c.pool, fails)

\* rotation that also takes a key on cooldown
RECURSIVE rotate_ignoring_cooldown(_, _, _, _, _, _)
rotate_ignoring_cooldown(keys, step, pool, cds, t, fails) ==
    IF step > Len(keys) THEN [ok |-> FALSE, pool |-> pool]
    ELSE LET idx == (pool.current_key_idx + step) % Len(keys)
             candidate == keys[idx + 1]
         IN  IF candidate \in pool.bad_keys
             THEN rotate_ignoring_cooldown(keys, step + 1, pool, cds, t, fails)
             ELSE [ok |-> TRUE,
                   pool |-> [pool EXCEPT !.model = candidate,
                                         !.current_key_idx = idx]]

\* lines 126-141
RECURSIVE rotate_to_next_available_key(_, _, _, _, _, _)
rotate_to_next_available_key(keys, step, pool, cds, t, fails) ==
    IF keys = <<>> \/ step > Len(keys) THEN [ok |-> FALSE, pool |-> pool]
    ELSE LET idx == (pool.current_key_idx + step) % Len(keys)
             candidate == keys[idx + 1]
         IN  IF candidate \in pool.bad_keys
                 \/ is_key_on_cooldown(cds, candidate, t)
             THEN rotate_to_next_available_key(keys, step + 1, pool, cds, t, fails)
             ELSE LET c == configure_model_for_key(pool, candidate, idx, cds, t, fails)
                  IN  IF c.ok THEN c
                      ELSE rotate_to_next_available_key(keys, step + 1, c.pool,
                                                        cds, t, fails)

\* lines 89-93
current_key(keys, idx) == IF idx >= 0 /\ idx < Len(keys) THEN keys[idx + 1] ELSE NoModel

\* lines 374-377
sleep_time(a, r) == IF a < r THEN backoff_seconds * pow2(a - 1) ELSE 0

Pool == [model |-> model, current_key_idx |-> current_key_idx, bad_keys |-> bad_keys]

InitCall ==
    /\ \E n \in 0..MaxKeys, fails \in SUBSET (1..MaxKeys) :
          /\ api_keys = [i \in 1..n |-> i]
          /\ LET pool == init_keys(api_keys, 0,
                            [model |-> NoModel, current_key_idx |-> -1, bad_keys |-> {}],
                            fails \cap (1..n))
             IN  /\ model = pool.model
                 /\ current_key_idx = pool.current_key_idx
                 /\ bad_keys = pool.bad_keys
          /\ key_cooldowns = [k \in 1..n |-> 0]
    /\ quota_exhausted_until = 0
    /\ clock = 0
    /\ retries = 0
    /\ attempt = 0
    /\ last_exc = "none"
    /\ worker = "none"
    /\ invocations = 0
    /\ timeouts = 0
    /\ sleeps = 0
    /\ last_invocation = [key |-> 0, outcome |-> "none", usable |-> TRUE]
    /\ calls = 0
    /\ callPc = "idle"
    /\ gemini = [is_available |-> FALSE, quota_exhausted |-> FALSE]
    /\ now = 0
    /\ AlignIdle
    /\ FileIdle
    /\ EvalIdle
    /\ RunIdle
    /\ SortIdle
    /\ ParseIdle
    /\ FlatIdle

\* lines 288-327: the call starts
CallModel ==
    /\ callPc = "idle"
    /\ calls < MaxCalls
    /\ calls' = calls + 1
    /\ \E r \in RetriesArgs : retries' = r
    /\ invocations' = 0
    /\ timeouts' = 0
    /\ sleeps' = 0
    /\ worker' = "none"
    /\ IF model = NoModel
       THEN /\ callPc' = "raised"
            /\ last_exc' = "RuntimeError"
            /\ attempt' = 0
       ELSE /\ callPc' = "attempt"
            /\ last_exc' = "none"
            /\ attempt' = 1
    /\ UNCHANGED <<api_keys, current_key_idx, model, bad_keys, key_cooldowns,
                   quota_exhausted_until, clock, last_invocation,
                   alignVars, fileVars, evalVars, runVars, svcVars, pureVars>>

\* lines 332, 379-380: the next value of the range, or the end of the loop
NextIteration ==
    IF attempt < last_attempt(retries)
    THEN /\ attempt' = attempt + 1
         /\ callPc' = "attempt"
    ELSE /\ attempt' = attempt
         /\ callPc' = "raised"

\* lines 332-377: one iteration of the loop
Attempt ==
    /\ callPc = "attempt"
    /\ invocations' = invocations + 1
    /\ \E outcome \in Outcomes, hint \in RetryHints, fails \in SUBSET Range(api_keys) :
       LET cur == current_key(api_keys, current_key_idx)
       IN
       /\ last_invocation' =
             [key |-> model, outcome |-> outcome,
              usable |-> model \notin bad_keys
                         /\ ~is_key_on_cooldown(key_cooldowns, model, clock)]
       /\ CASE outcome = "ok" ->
                 /\ hint = NoHint /\ fails = {}
                 /\ callPc' = "returned"
                 /\ UNCHANGED <<current_key_idx, model, bad_keys, key_cooldowns,
                                quota_exhausted_until, clock, attempt, last_exc,
                                worker, timeouts, sleeps>>
            [] outcome = "timeout" ->
                 /\ hint = NoHint /\ fails = {}
                 /\ last_exc' = "timeout"
                 /\ timeouts' = timeouts + 1
                 /\ clock' = clock + per_attempt_timeout
                 /\ callPc' = "executor_exit"
                 /\ worker' \in {"returns_late", "never_returns"}
                 /\ UNCHANGED <<current_key_idx, model, bad_keys, key_cooldowns,
                                quota_exhausted_until, attempt, sleeps>>
            [] outcome = "other" ->
                 /\ hint = NoHint /\ fails = {}
                 /\ last_exc' = "other"
                 /\ clock' = clock + sleep_time(attempt, retries)
                 /\ sleeps' = IF attempt < retries THEN sleeps + 1 ELSE sleeps
                 /\ NextIteration
                 /\ UNCHANGED <<current_key_idx, model, bad_keys, key_cooldowns,
                                quota_exhausted_until, worker, timeouts>>
            [] outcome = "quota" ->
                 LET cd  == quota_cooldown(hint)
                     cds == IF cur # NoModel
                            THEN mark_key_cooldown(key_cooldowns, cur, cd, clock)
                            ELSE key_cooldowns
                     rot == rotate_to_next_available_key(api_keys, 1, Pool, cds,
                                                         clock, fails)
                 IN  /\ last_exc' = "quota"
                     /\ key_cooldowns' = cds
                     /\ model' = rot.pool.model
                     /\ current_key_idx' = rot.pool.current_key_idx
                     /\ bad_keys' = rot.pool.bad_keys
                     /\ IF rot.ok
                        THEN /\ NextIteration
                             /\ UNCHANGED quota_exhausted_until
                        ELSE /\ quota_exhausted_until' = clock + cd
                             /\ callPc' = "raised"
                             /\ UNCHANGED attempt
                     /\ UNCHANGED <<clock, worker, timeouts, sleeps>>
            [] outcome = "auth" ->
                 LET bad == IF cur # NoModel THEN bad_keys \cup {cur} ELSE bad_keys
                     rot == rotate_to_next_available_key(api_keys, 1,
                                [Pool EXCEPT !.bad_keys = bad], key_cooldowns,
                                clock, fails)
                 IN  /\ hint = NoHint
                     /\ last_exc' = "auth"
                     /\ model' = rot.pool.model
                     /\ current_key_idx' = rot.pool.current_key_idx
                     /\ bad_keys' = rot.pool.bad_keys
                     /\ IF rot.ok
                        THEN NextIteration
                        ELSE /\ callPc' = "raised"
                             /\ UNCHANGED attempt
                     /\ UNCHANGED <<key_cooldowns, quota_exhausted_until, clock,
                                    worker, timeouts, sleeps>>
    /\ UNCHANGED <<api_keys, retries, calls,
                   alignVars, fileVars, evalVars, runVars, svcVars, pureVars>>

\* line 333: leaving the with block after a timeout joins the thread that
\* still runs _generate (ThreadPoolExecutor.__exit__ is shutdown(wait=True));
\* then lines 374-377 and the next iteration
ExecutorExit ==
    /\ callPc = "executor_exit"
    /\ worker = "returns_late"
    /\ worker' = "none"
    /\ \E late \in LateSeconds :
          clock' = clock + late + sleep_time(attempt, retries)
    /\ sleeps' = IF attempt < retries THEN sleeps + 1 ELSE sleeps
    /\ NextIteration
    /\ UNCHANGED <<api_keys, current_key_idx, model, bad_keys, key_cooldowns,
                   quota_exhausted_until, retries, last_exc, invocations,
                   timeouts, last_invocation, calls,
                   alignVars, fileVars, evalVars, runVars, svcVars, pureVars>>

\* the caller has the response or the exception and the locals of the call
\* are gone; time passes until the next call
CallEnds ==
    /\ callPc \in {"returned", "raised"}
    /\ callPc' = "idle"
    /\ \E d \in Elapsed : clock' = clock + d
    /\ retries' = 0
    /\ attempt' = 0
    /\ last_exc' = "none"
    /\ invocations' = 0
    /\ timeouts' = 0
    /\ sleeps' = 0
    /\ last_invocation' = [key |-> 0, outcome |-> "none", usable |-> TRUE]
    /\ UNCHANGED <<api_keys, current_key_idx, model, bad_keys, key_cooldowns,
                   quota_exhausted_until, worker, calls,
                   alignVars, fileVars, evalVars, runVars, svcVars, pureVars>>

NextCall == CallModel \/ Attempt \/ ExecutorExit \/ CallEnds
SpecCall == InitCall /\ [][NextCall]_vars

----------------------------------------------------------------------------
(* Label Normalizer sort key: GeminiProcessor._natural_sort_key
   (utils/gemini_processor.py:569-580) and a sort that uses it (lines 552,
   555, 625).  A key is a list of tokens; a token is an int or a str. *)

\* [a-z] over the letters of the model's alphabet
IsLowerLetter(c) == c \in {"a", "b", "c", "d", "i", "q"}

RECURSIVE token_len(_, _)
token_len(s, digit) ==
    IF s = <<>> THEN 0
    ELSE IF (digit /\ IsDigit(s[1])) \/ (~digit /\ IsLowerLetter(s[1]))
         THEN 1 + token_len(Tail(s), digit)
         ELSE 0

\* lines 573-579: re.findall(r'(\d+|[a-z]+)', s), digits turned into int
RECURSIVE findall_tokens(_)
findall_tokens(s) ==
    IF s = <<>> THEN <<>>
    ELSE IF IsDigit(s[1])
    THEN LET n == token_len(s, TRUE)
         IN  <<[is_int |-> TRUE, n |-> int_of(SubSeq(s, 1, n)), s |-> <<>>]>>
             \o findall_tokens(SubSeq(s, n + 1, Len(s)))
    ELSE IF IsLowerLetter(s[1])
    THEN LET n == token_len(s, FALSE)
         IN  <<[is_int |-> FALSE, n |-> 0, s |-> SubSeq(s, 1, n)]>>
             \o findall_tokens(SubSeq(s, n + 1, Len(s)))
    ELSE findall_tokens(Tail(s))

\* lines 569-580
natural_sort_key(question_id) == findall_tokens(lower(question_id))

\* Python's < on two lists: the first pair of unequal items decides, and
\* int < str is a TypeError; without such a pair the shorter list is smaller
RECURSIVE list_less(_, _)
list_less(ka, kb) ==
    IF ka = <<>> \/ kb = <<>>
    THEN IF Len(ka) < Len(kb) THEN "True" ELSE "False"
    ELSE IF Head(ka) = Head(kb) THEN list_less(Tail(ka), Tail(kb))
    ELSE IF Head(ka).is_int # Head(kb).is_int THEN "TypeError"
    ELSE IF Head(ka).is_int
         THEN IF Head(ka).n < Head(kb).n THEN "True" ELSE "False"
         ELSE IF str_less(Head(ka).s, Head(kb).s) THEN "True" ELSE "False"

\* one element put into a sorted list, compared from the right (stable)
RECURSIVE insert_by_key(_, _)
insert_by_key(acc, x) ==
    IF acc.raised \/ acc.value = <<>>
    THEN [raised |-> acc.raised, value |-> acc.value \o <<x>>]
    ELSE LET last == acc.value[Len(acc.value)]
             lt == list_less(natural_sort_key(x), natural_sort_key(last))
         IN  IF lt = "TypeError" THEN [raised |-> TRUE, value |-> acc.value]
             ELSE IF lt = "False"
             THEN [raised |-> FALSE, value |-> acc.value \o <<x>>]
             ELSE LET r == insert_by_key(
                              [raised |-> FALSE,
                               value |-> SubSeq(acc.value, 1, Len(acc.value) - 1)], x)
                  IN  [raised |-> r.raised, value |-> r.value \o <<last>>]

\* sorted(labels, key=self._natural_sort_key): with two elements the one
\* comparison key(labels[1]) < key(labels[0]) decides, as in list.sort
RECURSIVE sorted_by_natural_key(_, _)
sorted_by_natural_key(labels, acc) ==
    IF labels = <<>> THEN [raised |-> acc.raised,
                           value |-> IF acc.raised THEN <<>> ELSE acc.value]
    ELSE sorted_by_natural_key(Tail(labels), insert_by_key(acc, Head(labels)))

SortLabels ==
    { <<"1">>, <<"1", "0">>, <<"2">>, <<"2", "a">>, <<"2", "B">>, <<"Q", "1">>,
      <<"a">>, <<"?">>, <<>> }

InitSort ==
    /\ sort_labels \in SeqsOver(SortLabels, 2)
    /\ sort_result = [raised |-> FALSE, value |-> <<>>]
    /\ sortPc = "call"
    /\ AlignIdle
    /\ FileIdle
    /\ EvalIdle
    /\ RunIdle
    /\ gemini = [is_available |-> FALSE, quota_exhausted |-> FALSE]
    /\ now = 0
    /\ CallIdle
    /\ ParseIdle
    /\ FlatIdle

\* lines 552, 555: sorted(keys, key=self._natural_sort_key)
SortLabelsByKey ==
    /\ sortPc = "call"
    /\ sort_result' = sorted_by_natural_key(sort_labels,
                                            [raised |-> FALSE, value |-> <<>>])
    /\ sortPc' = "done"
    /\ UNCHANGED <<sort_labels, alignVars, fileVars, evalVars, runVars, svcVars,
                   callVars, parseVars, flatVars>>

NextSort == SortLabelsByKey
SpecSort == InitSort /\ [][NextSort]_vars

----------------------------------------------------------------------------
(* GeminiProcessor.parse_pages_to_structure (utils/gemini_processor.py:
   473-567) with its regex parser _enhanced_fallback_parser (582-656), as
   _process_single_file calls it (services/paper_processor.py:968-982).
   The OCR text is represented by the question ids the regex patterns of
   lines 590-621 find in it, in the order of their first match; a parsed
   structure by the parser it comes from and its question order. *)

\* q_id of lines 607-614: "1", "1.a", "1.a.i", "1.a.2"
RegexLabels ==
    { <<"1">>, <<"2">>, <<"1", ".", "a">>, <<"1", ".", "a", ".", "i">>,
      <<"1", ".", "a", ".", "2">> }

PagesLists ==
    { [is_empty |-> FALSE, q_ids |-> q] :
        q \in { x \in SeqsOver(RegexLabels, 2) :
                  \A i, j \in 1..Len(x) : x[i] = x[j] => i = j } }
    \cup { [is_empty |-> TRUE, q_ids |-> <<>>] }

\* what _call_model and the text of its response are
ParseReplies ==
    {"raise", "not_json", "json_not_dict", "json_bad_answer_map", "json_structure"}

\* ordered_questions_original of a well-formed reply
ReplyOrder == << <<"1">>, <<"2">> >>

\* paper_processor.py:978, 981: raw_parsed = {}
EmptyStructure == [parser |-> "none", ordered_questions_original |-> <<>>]

\* lines 582-656: the regex parser; line 625 sorts the ids by _natural_sort_key
enhanced_fallback_parser(pages_list) ==
    LET srt == sorted_by_natural_key(pages_list.q_ids,
                                     [raised |-> FALSE, value |-> <<>>])
    IN  IF srt.raised
        THEN [error |-> "TypeError", value |-> EmptyStructure]
        ELSE [error |-> "none",
              value |-> [parser |-> "regex",
                         ordered_questions_original |-> srt.value]]

\* lines 473-567
parse_pages_to_structure(pages_list, has_model, response) ==
    \* line 477: _ensure_ocr_input
    IF pages_list.is_empty THEN [error |-> "ValueError", value |-> EmptyStructure]
    \* line 519: _ensure_model, before the try
    ELSE IF ~has_model THEN [error |-> "RuntimeError", value |-> EmptyStructure]
    \* lines 521-530 raise: _call_model, json.loads; line 538: answer_map.items()
    ELSE IF response \in {"raise", "not_json", "json_bad_answer_map"}
    THEN enhanced_fallback_parser(pages_list)
    \* lines 533-534: a JSON value that is not an object becomes {}
    ELSE IF response = "json_not_dict"
    THEN [error |-> "none",
          value |-> [parser |-> "structured", ordered_questions_original |-> <<>>]]
    ELSE [error |-> "none",
          value |-> [parser |-> "structured",
                     ordered_questions_original |-> ReplyOrder]]

InitParse ==
    /\ pages \in PagesLists
    /\ parse_reply \in ParseReplies
    /\ model \in {NoModel, 1}
    /\ parse_result = <<>>
    /\ parse_error = "none"
    /\ parsePc = "call"
    /\ api_keys = <<>>
    /\ current_key_idx = -1
    /\ bad_keys = {}
    /\ key_cooldowns = <<>>
    /\ quota_exhausted_until = 0
    /\ clock = 0
    /\ retries = 0
    /\ attempt = 0
    /\ last_exc = "none"
    /\ worker = "none"
    /\ invocations = 0
    /\ timeouts = 0
    /\ sleeps = 0
    /\ last_invocation = [key |-> 0, outcome |-> "none", usable |-> TRUE]
    /\ calls = 0
    /\ callPc = "unused"
    /\ gemini = [is_available |-> FALSE, quota_exhausted |-> FALSE]
    /\ now = 0
    /\ AlignIdle
    /\ FileIdle
    /\ EvalIdle
    /\ RunIdle
    /\ SortIdle
    /\ FlatIdle

\* paper_processor.py:968-982: raw_parsed = parse_pages_to_structure(pages) or {},
\* and {} when the call raises
ParsePages ==
    /\ parsePc = "call"
    /\ LET r == parse_pages_to_structure(pages, model # NoModel, parse_reply)
       IN  /\ parse_error' = r.error
           /\ parse_result' = IF r.error # "none" THEN EmptyStructure ELSE r.value
    /\ parsePc' = "done"
    /\ UNCHANGED <<pages, parse_reply, alignVars, fileVars, evalVars, runVars,
                   svcVars, callVars, sortVars, flatVars>>

NextParse == ParsePages
SpecParse == InitParse /\ [][NextParse]_vars

----------------------------------------------------------------------------
(* Question Flattener: _flatten_questions_from_parts
   (services/paper_processor.py:736-794).  A JSON value is a node
   [t, s, kids]: t is "dict", "list" or "str"; s is the text of a str; kids
   are the [k, v] entries of a dict in key order, or the elements of a list
   (k empty). *)

Str(chars) == [t |-> "str", s |-> chars, kids |-> <<>>]
DictNode(entries) == [t |-> "dict", s |-> <<>>, kids |-> entries]
ListNode(els) ==
    [t |-> "list", s |-> <<>>, kids |-> [i \in 1..Len(els) |-> [k |-> <<>>, v |-> els[i]]]]

KeyId == <<"i", "d">>
KeyLabel == <<"l", "a", "b", "e", "l">>
KeyQuestionNumber ==
    <<"q", "u", "e", "s", "t", "i", "o", "n", "_", "n", "u", "m", "b", "e", "r">>
KeySubparts == <<"s", "u", "b", "p", "a", "r", "t", "s">>
KeyPartsKey == <<"p", "a", "r", "t", "s">>
KeyQuestions == <<"q", "u", "e", "s", "t", "i", "o", "n", "s">>
KeyItems == <<"i", "t", "e", "m", "s">>
\* lines 755, 767
Subkeys == <<KeySubparts, KeyPartsKey, KeyQuestions, KeyItems>>
\* line 762
IdKeys == <<KeyId, KeyLabel, KeyQuestionNumber>>

\* bool(x)
truthy(node) == IF node.t = "str" THEN node.s # <<>> ELSE node.kids # <<>>

\* str(x): the text of a str, the repr of a dict or a list
py_str(node) ==
    IF node.t = "str" THEN node.s
    ELSE IF node.t = "list" THEN <<"[", ".", ".", "]">>
    ELSE <<"{", ".", ".", "}">>

node_has(node, key) == \E i \in 1..Len(node.kids) : node.kids[i].k = key
node_get(node, key) ==
    node.kids[CHOOSE i \in 1..Len(node.kids) : node.kids[i].k = key].v

\* line 762: el.get("id") or el.get("label") or el.get("question_number") or None
RECURSIVE first_truthy(_, _)
first_truthy(el, keys) ==
    IF keys = <<>> THEN [found |-> FALSE, v |-> Str(<<>>)]
    ELSE IF node_has(el, Head(keys)) /\ truthy(node_get(el, Head(keys)))
         THEN [found |-> TRUE, v |-> node_get(el, Head(keys))]
         ELSE first_truthy(el, Tail(keys))

RECURSIVE walk(_)
RECURSIVE walk_subkeys(_, _)
RECURSIVE walk_dict(_)
RECURSIVE walk_list(_)

\* lines 755-757, 767-769: the nested parts of an item
walk_subkeys(item, subkeys) ==
    IF subkeys = <<>> THEN <<>>
    ELSE (IF node_has(item, Head(subkeys)) /\ truthy(node_get(item, Head(subkeys)))
          THEN walk(node_get(item, Head(subkeys)))
          ELSE <<>>)
         \o walk_subkeys(item, Tail(subkeys))

\* lines 746-757
walk_dict(entries) ==
    IF entries = <<>> THEN <<>>
    ELSE <<strip(Head(entries).k)>>
         \o (IF Head(entries).v.t = "dict"
             THEN walk_subkeys(Head(entries).v, Subkeys) ELSE <<>>)
         \o walk_dict(Tail(entries))

\* lines 758-772
walk_list(els) ==
    IF els = <<>> THEN <<>>
    ELSE LET el == Head(els).v
             lid == first_truthy(el, IdKeys)
         IN  (IF el.t = "dict"
              THEN IF lid.found THEN <<strip(py_str(lid.v))>>
                   ELSE walk_subkeys(el, Subkeys)
              ELSE <<strip(py_str(el))>>)
             \o walk_list(Tail(els))

\* lines 744-772
walk(node) ==
    IF node.t = "dict" THEN walk_dict(node.kids)
    ELSE IF node.t = "list" THEN walk_list(node.kids)
    ELSE <<>>

\* lines 775-784: the top-level dict maps part names to their questions
RECURSIVE walk_parts(_)
walk_parts(entries) ==
    IF entries = <<>> THEN <<>>
    ELSE LET part == Head(entries).v
         IN  (IF part.t = "dict" /\ node_has(part, KeyQuestions)
                  /\ truthy(node_get(part, KeyQuestions))
              THEN walk(node_get(part, KeyQuestions))
              ELSE walk(part))
             \o walk_parts(Tail(entries))

\* lines 786-794: dedupe while preserving order, empty labels dropped
RECURSIVE dedupe(_, _)
dedupe(ordered, out) ==
    IF ordered = <<>> THEN out
    ELSE dedupe(Tail(ordered),
                IF Head(ordered) = <<>> \/ Head(ordered) \in Range(out)
                THEN out ELSE Append(out, Head(ordered)))

\* lines 736-794
flatten_questions_from_parts(p) ==
    dedupe(IF p.t = "dict" THEN walk_parts(p.kids) ELSE walk(p), <<>>)

\* ---- the structures the flattener is given ----
FlatLabels == { <<"1">>, <<" ", "1">>, <<"2">> }
\* a question without sub-parts: a bare label, a body, an element with an id
PlainQuestions ==
    { Str(l) : l \in {<<"1">>, <<" ", "2">>} }
    \cup { DictNode(<<>>) }
    \cup { DictNode(<<[k |-> KeyId, v |-> Str(l)]>>) : l \in {<<"1">>, <<"2">>} }
\* the sub-parts of a question: a list of questions or a dict label -> body
SubStructures ==
    { ListNode(q) : q \in SeqsOver(PlainQuestions, 1) }
    \cup { DictNode(<<[k |-> l, v |-> DictNode(<<>>)]>>) : l \in {<<"1">>, <<"2">>} }
\* a list element: a plain question, one with sub-parts (with or without an
\* id of its own), or a list
ListElements ==
    PlainQuestions
    \cup { DictNode(<<[k |-> KeyId, v |-> Str(l)], [k |-> KeySubparts, v |-> sub]>>) :
             l \in {<<"1">>, <<"2">>}, sub \in SubStructures }
    \cup { DictNode(<<[k |-> KeySubparts, v |-> sub]>>) : sub \in SubStructures }
    \cup { ListNode(<<Str(<<"1">>)>>) }
\* the value of a label in a dict of questions
DictItems ==
    { DictNode(<<>>), Str(<<"1">>) }
    \cup { DictNode(<<[k |-> KeySubparts, v |-> sub]>>) : sub \in SubStructures }
QuestionLists == { ListNode(q) : q \in SeqsOver(ListElements, 2) }
QuestionDicts ==
    { DictNode(d) : d \in DictsOver(FlatLabels, DictItems, 2) }
PartNames == { <<"A">>, <<"B">> }
PartsArgs ==
    QuestionLists
    \cup { DictNode(<<[k |-> n, v |-> q]>>) :
             n \in PartNames, q \in QuestionLists \cup QuestionDicts }
    \cup { DictNode(<<[k |-> n, v |-> DictNode(<<[k |-> KeyQuestions, v |-> q]>>)]>>) :
             n \in PartNames, q \in QuestionDicts }
    \cup { Str(<<"1">>) }

InitFlat ==
    /\ flat_parts \in PartsArgs
    /\ parts_after = <<>>
    /\ flat = <<>>
    /\ flatPc = "call"
    /\ AlignIdle
    /\ FileIdle
    /\ EvalIdle
    /\ RunIdle
    /\ gemini = [is_available |-> FALSE, quota_exhausted |-> FALSE]
    /\ now = 0
    /\ CallIdle
    /\ SortIdle
    /\ ParseIdle

\* the call: the function only reads its argument
FlattenQuestions ==
    /\ flatPc = "call"
    /\ flat' = flatten_questions_from_parts(flat_parts)
    /\ parts_after' = flat_parts
    /\ flatPc' = "done"
    /\ UNCHANGED <<flat_parts, alignVars, fileVars, evalVars, runVars, svcVars,
                   callVars, sortVars, parseVars>>

NextFlat == FlattenQuestions
SpecFlat == InitFlat /\ [][NextFlat]_vars

----------------------------------------------------------------------------
(* Scoring engine over whole sheets: evaluate_student_answers of
   paper_processor_backup_before_integration.py on answer keys that answer
   every question of the ordering: structured.parts is one list part whose
   items carry the ids of answer_map (lines 202-205). *)

\* question ids "1", "2", ... of a sheet of n questions
ScoreIds(n) == [i \in 1..n |-> str(i)]
ScoreKeyAnswers     == { "A", "text" }
ScoreStudentAnswers == { EmptyAns, "A", "B", "text" }
\* metadata total_marks after int(), 0 for none (line 212 treats both alike)
ScoreTotals == { 0, 10, 20 }

\* the answer maps of n questions with values of V
ScoreMaps(n, V) ==
    { [i \in 1..n |-> [k |-> ScoreIds(n)[i], v |-> f[i]]] : f \in [1..n -> V] }

InitScore ==
    /\ \E n \in 1..MaxQuestions :
         /\ answer_key_doc \in
               { [present |-> FALSE] }
               \cup { [present |-> TRUE, answer_map |-> a,
                       parts |-> << ListPart(ScoreIds(n)) >>, total_marks |-> t] :
                        a \in ScoreMaps(n, ScoreKeyAnswers), t \in ScoreTotals }
         /\ student_doc \in
               { [answer_map |-> a] : a \in ScoreMaps(n, ScoreStudentAnswers) }
    /\ qIdx = 0
    /\ per_question_results = <<>>
    /\ missed_questions = <<>>
    /\ total_obtained = 0
    /\ results = <<>>
    /\ evalPc = "start"
    /\ AlignIdle
    /\ FileIdle
    /\ RunIdle
    /\ SvcIdle

SpecScore == InitScore /\ [][NextEval]_vars

----------------------------------------------------------------------------
(* Claims about the Answer Aligner *)

Distinct(s) == \A i, j \in 1..Len(s) : s[i] = s[j] => i = j
StripAll(s) == [i \in 1..Len(s) |-> strip(s[i])]
RawItems == OrEmptyDict(raw_answers)
NormKey(k) == lower(strip(k))
Min(S) == CHOOSE x \in S : \A y \in S : x <= y
Max(S) == CHOOSE x \in S : \A y \in S : x >= y

\* C1 as stated: for a non-empty sequence of N distinct target labels the
\* returned mapping has exactly the target labels as its keys, N entries.
C1_KeysAreTargetLabels ==
    (alignPc = "done" /\ ordered_questions # <<>> /\ Distinct(ordered_questions))
        => /\ Range(DictKeys(aligned)) = Range(ordered_questions)
           /\ Len(aligned) = Len(ordered_questions)

\* C1 (amended): for a non-empty sequence of N target labels that are distinct
\* after removing surrounding whitespace, the returned mapping has exactly the
\* whitespace-stripped target labels as its keys, in target order: N entries,
\* none missing, none extra, whatever the raw mapping (empty and null included).
C1_KeysAreStrippedTargets ==
    (alignPc = "done" /\ ordered_questions # <<>>
        /\ Distinct(StripAll(ordered_questions)))
        => /\ DictKeys(aligned) = StripAll(ordered_questions)
           /\ Len(aligned) = Len(ordered_questions)

\* two targets, one of them absent from a raw mapping that has a foreign key
C1_Witness ==
    /\ alignPc = "done"
    /\ Len(ordered_questions) = 2
    /\ Distinct(StripAll(ordered_questions))
    /\ Len(RawItems) = 2
    /\ \E i \in 1..2 : \A j \in 1..2 :
            NormKey(RawItems[i].k) # NormKey(ordered_questions[j])
    /\ \E j \in 1..2 : \A i \in 1..2 :
            numeric_key(NormKey(RawItems[i].k)) # numeric_key(strip(ordered_questions[j]))

\* the raw entries stored under the label t itself (ignoring case and
\* surrounding whitespace)
OwnEntries(t) == { i \in 1..Len(RawItems) : NormKey(RawItems[i].k) = NormKey(t) }

\* C2: no answer shifting.  A target label with no entry in the raw map is
\* mapped to the empty string, and a target label never receives the answer
\* the raw map stores under a different label.
C2_NoAnswerShifting ==
    alignPc = "done" =>
        \A n \in 1..Len(ordered_questions) :
            LET t == ordered_questions[n]
                got == DictGet(aligned, strip(t), NoneV)
            IN  /\ OwnEntries(t) = {} => got = EmptyAns
                /\ got # EmptyAns =>
                      \E i \in OwnEntries(t) : RawItems[i].v = got

\* C4 as stated: (1) the raw entry whose key equals the target
\* case-insensitively, (2) else the first raw entry in insertion order with
\* the target's leading numeric token, (3) else the empty string; never null.
C4_MatchingProcedureOnRawEntries ==
    alignPc = "done" =>
        \A n \in 1..Len(ordered_questions) :
            LET t == ordered_questions[n]
                got == DictGet(aligned, strip(t), NoneV)
                exact == { i \in 1..Len(RawItems) : lower(RawItems[i].k) = lower(t) }
                num == { i \in 1..Len(RawItems) :
                           /\ numeric_key(t) # <<>>
                           /\ numeric_key(RawItems[i].k) = numeric_key(t) }
            IN  /\ got # NoneV
                /\ exact # {} => \E i \in exact : got = NoneToEmpty(RawItems[i].v)
                /\ (exact = {} /\ num # {}) => got = NoneToEmpty(RawItems[Min(num)].v)
                /\ (exact = {} /\ num = {}) => got = EmptyAns

\* the value the raw mapping holds for the (stripped, lower-cased) key of
\* entry i: that of the last entry with the same normalised key
MergedValue(i) ==
    RawItems[Max({ j \in 1..Len(RawItems) :
                     NormKey(RawItems[j].k) = NormKey(RawItems[i].k) })].v

\* C4 (amended): raw keys are compared after stripping whitespace and
\* lower-casing, and raw entries whose keys are then equal count as one entry
\* at the position of the first, holding the value of the last.  For each
\* target: (1) the entry whose key equals the target's; (2) else the first
\* entry in insertion order with the target's leading numeric token; (3) else
\* the empty string.  A null value is replaced by the empty string.
C4_MatchingProcedure ==
    alignPc = "done" =>
        \A n \in 1..Len(ordered_questions) :
            LET t == ordered_questions[n]
                got == DictGet(aligned, strip(t), NoneV)
                exact == OwnEntries(t)
                num == { i \in 1..Len(RawItems) :
                           /\ numeric_key(strip(t)) # <<>>
                           /\ numeric_key(NormKey(RawItems[i].k)) = numeric_key(strip(t)) }
            IN  /\ got # NoneV
                /\ exact # {} => got = NoneToEmpty(RawItems[Max(exact)].v)
                /\ (exact = {} /\ num # {}) => got = NoneToEmpty(MergedValue(Min(num)))
                /\ (exact = {} /\ num = {}) => got = EmptyAns

\* a target resolved by the numeric fallback among two raw entries that share
\* its numeric token, and a null raw value in play
C4_Witness ==
    /\ alignPc = "done"
    /\ \E n \in 1..Len(ordered_questions) :
          /\ OwnEntries(ordered_questions[n]) = {}
          /\ Cardinality({ i \in 1..Len(RawItems) :
                 numeric_key(NormKey(RawItems[i].k))
                     = numeric_key(strip(ordered_questions[n])) }) = 2
          /\ RawItems[1].v # RawItems[2].v
          /\ DictGet(aligned, strip(ordered_questions[n]), NoneV) = RawItems[1].v
    /\ \E i \in 1..Len(RawItems) : RawItems[i].v = NoneV

----------------------------------------------------------------------------
(* Claims about the Canonical Index Builder and the processed document *)

Stored == filePc \in {"stored", "stored_after_remap_error"}

PositionNames ==
    << <<"1">>, <<"2">>, <<"3">>, <<"4">>, <<"5">>, <<"6">>, <<"7">>, <<"8">>, <<"9">> >>

\* the label sequence the builder numbers: the document's ordering, or the
\* keys of the raw answer mapping when the document gives none
BuilderLabels ==
    IF raw_parsed.ordered_questions_original # <<>>
    THEN raw_parsed.ordered_questions_original
    ELSE DictKeys(raw_parsed.answer_map)

\* the raw answers a document is aligned from
DocRawAnswers == OrDict(raw_parsed.answer_map, answers_original)

\* the answer the raw answers hold for label t: the value of an entry whose
\* key is t (ignoring case and surrounding whitespace), "" when none or null
IsAnswerOf(val, t) ==
    LET own == { i \in 1..Len(DocRawAnswers) :
                   NormKey(DocRawAnswers[i].k) = NormKey(t) }
    IN  IF own = {} THEN val = EmptyAns
        ELSE \E i \in own : val = NoneToEmpty(DocRawAnswers[i].v)

\* the document has an answer_map, and its labels are distinct and carry no
\* surrounding whitespace
PlainLabels ==
    /\ raw_parsed.answer_map # <<>>
    /\ BuilderLabels # <<>>
    /\ Distinct(BuilderLabels)
    /\ \A n \in 1..Len(BuilderLabels) : strip(BuilderLabels[n]) = BuilderLabels[n]

\* C3: in the stored document, answers_consecutive_aligned[k] is the answer of
\* the original label consec_to_label[k] (the empty string when that label has
\* no answer) for every canonical position k, and nothing is stored under a
\* key that is not a canonical position.  Stated for documents that have an
\* answer_map and whose labels are distinct and free of surrounding
\* whitespace, as in the scenario ["1","2a","2b","3"] with {"2a":"X"}.
C3_AlignedOnCanonicalPositions ==
    (Stored /\ PlainLabels) =>
        /\ \A n \in 1..Len(BuilderLabels) :
              /\ DictHas(doc.answers_consecutive_aligned, PositionNames[n])
              /\ IsAnswerOf(DictGet(doc.answers_consecutive_aligned, PositionNames[n], NoneV),
                            BuilderLabels[n])
        /\ Range(DictKeys(doc.answers_consecutive_aligned))
              \subseteq Range(doc.ordered_questions_consecutive)

\* C5: the canonical positions of a label sequence of length N are exactly
\* "1".."N" without a gap, and position i is assigned to the i-th label.
C5_ContiguousPositionsInDocumentOrder ==
    Stored =>
        /\ structured.ordered_questions_consecutive
              = SubSeq(PositionNames, 1, Len(BuilderLabels))
        /\ DictKeys(structured.consec_to_label)
              = SubSeq(PositionNames, 1, Len(BuilderLabels))
        /\ \A n \in 1..Len(BuilderLabels) :
              DictGet(structured.consec_to_label, PositionNames[n], NoneV) = BuilderLabels[n]

\* two labels with a gap in the numbering and a sub-part label, numbered 1, 2
C5_Witness ==
    /\ Stored
    /\ Len(BuilderLabels) = 2
    /\ numeric_key(BuilderLabels[1]) # <<"1">>
    /\ \E n \in 1..2 : numeric_key(BuilderLabels[n]) # strip(BuilderLabels[n])
    /\ structured.ordered_questions_consecutive = << <<"1">>, <<"2">> >>

\* C6: label_to_consec and consec_to_label are mutual inverses for every
\* label sequence given to the builder.
C6_MapsAreMutualInverses ==
    Stored =>
        /\ \A i \in 1..Len(structured.consec_to_label) :
              LET e == structured.consec_to_label[i]
              IN  DictGet(structured.label_to_consec, e.v, NoneV) = e.k
        /\ \A i \in 1..Len(structured.label_to_consec) :
              LET e == structured.label_to_consec[i]
              IN  DictGet(structured.consec_to_label, e.v, NoneV) = e.k

\* the document gave no ordering and the builder numbered the keys of the
\* raw answer mapping
DegradedMode ==
    /\ raw_parsed.ordered_questions_original = <<>>
    /\ structured.ordered_questions_original = DictKeys(raw_parsed.answer_map)
    /\ raw_parsed.answer_map # <<>>

\* the returned structure marks its numbering as degraded
FlaggedDegraded(st) == "degraded" \in DOMAIN st /\ st["degraded"] = TRUE

\* C7: the structure returned by the builder carries a flag that marks the
\* numbering as degraded whenever the labels came from the keys of the raw
\* answer mapping, and no such flag when the ordering came from the document.
C7_DegradedModeIsFlagged ==
    Stored =>
        /\ DegradedMode => FlaggedDegraded(structured)
        /\ raw_parsed.ordered_questions_original # <<>> => ~FlaggedDegraded(structured)

\* C8: the stored answers_consecutive_aligned holds a non-null value for every
\* position of ordered_questions_consecutive, on the normal remapping path and
\* on the path taken when the remapping raises.
C8_EveryPositionHasEntry ==
    Stored =>
        \A n \in 1..Len(doc.ordered_questions_consecutive) :
            /\ DictHas(doc.answers_consecutive_aligned, doc.ordered_questions_consecutive[n])
            /\ DictGet(doc.answers_consecutive_aligned,
                       doc.ordered_questions_consecutive[n], NoneV) # NoneV

\* the remapping completed and left a position for the final loop to add
C8_Witness ==
    /\ filePc = "stored"
    /\ doc.ordered_questions_consecutive # <<>>
    /\ Len(remap_to_consecutive(doc.answers_aligned, doc.label_to_consec, <<>>))
          < Len(doc.ordered_questions_consecutive)
    /\ Len(doc.answers_consecutive_aligned) >= Len(doc.ordered_questions_consecutive)

\* C9: missing_questions is exactly the list of canonical positions whose
\* aligned answer is the empty string.
C9_MissingListsEmptyAnswers ==
    Stored =>
        /\ Range(doc.missing_questions) \subseteq Range(doc.ordered_questions_consecutive)
        /\ \A n \in 1..Len(doc.ordered_questions_consecutive) :
              LET q == doc.ordered_questions_consecutive[n]
              IN  q \in Range(doc.missing_questions)
                    <=> DictGet(doc.answers_consecutive_aligned, q, NoneV) = EmptyAns

----------------------------------------------------------------------------
(* Claims about the scoring engine *)

\* the student has no answer for qid: no entry, a null entry or an empty one
StudentAnswerEmpty(qid) ==
    \/ ~DictHas(student_doc.answer_map, qid)
    \/ DictGet(student_doc.answer_map, qid, NoneV) \in {NoneV, EmptyAns}

\* C10: a question whose student answer is empty is awarded 0 with the reason
\* "no student answer", whatever the key holds (an empty key included).
C10_EmptyStudentAnswerScoresZero ==
    \A i \in 1..Len(per_question_results) :
        LET d == per_question_results[i].v
        IN  StudentAnswerEmpty(d.question_id)
              => d.awarded = 0 /\ d.reason = "no student answer"

\* an empty student answer met a full key in one question and an empty key in
\* another, while an answered question of the same key earned marks
C10_Witness ==
    /\ evalPc = "scoring"
    /\ \E i \in 1..Len(per_question_results) :
          LET d == per_question_results[i].v
          IN  /\ StudentAnswerEmpty(d.question_id)
              /\ d.correct_answer = EmptyAns
              /\ d.reason = "no student answer"
    /\ \E i \in 1..Len(per_question_results) :
          LET d == per_question_results[i].v
          IN  /\ StudentAnswerEmpty(d.question_id)
              /\ d.correct_answer = "A"
              /\ d.awarded = 0

\* the answer key has no answer for qid: no entry, a null entry or an empty one
KeyAnswerEmpty(qid) ==
    \/ ~DictHas(answer_key_doc.answer_map, qid)
    \/ DictGet(answer_key_doc.answer_map, qid, NoneV) \in {NoneV, EmptyAns}

\* the question results of the student: those of the running loop and those
\* of the stored record
AllDetails ==
    { per_question_results[i].v : i \in 1..Len(per_question_results) }
    \cup UNION { { results[r].per_question[i].v : i \in 1..Len(results[r].per_question) } :
                 r \in 1..Len(results) }

\* C11: a question whose answer-key entry is empty is awarded 0 with the
\* reason "no answer key" for every non-empty student answer, whatever the
\* quality and similarity collaborators would reply.
C11_EmptyKeyAwardsNothing ==
    \A d \in AllDetails :
        (KeyAnswerEmpty(d.question_id) /\ ~StudentAnswerEmpty(d.question_id))
            => d.awarded = 0 /\ d.reason = "no answer key"

\* a textual answer met an empty key and got nothing, while the same run's
\* collaborators gave marks to a textual answer of a question that has a key
C11_Witness ==
    /\ \E d \in AllDetails :
          /\ KeyAnswerEmpty(d.question_id)
          /\ d.student_answer = "text"
          /\ d.reason = "no answer key"
          /\ d.awarded = 0
    /\ \E d \in AllDetails :
          /\ d.reason = "descriptive combined eval"
          /\ d.awarded > 0

\* C12: when the key answer is a single letter A-D, the award is the full
\* per-question mark if the student answer equals the key letter ignoring
\* case, and exactly 0 for every other non-empty student answer.
C12_McqFullMarksOrZero ==
    \A d \in AllDetails :
        (is_mcq_letter(d.correct_answer) /\ d.student_answer # EmptyAns)
            => IF answer_upper(answer_strip(d.student_answer))
                    = answer_upper(answer_strip(d.correct_answer))
               THEN d.awarded = d.max_marks
               ELSE d.awarded = 0

C14_TotalsMatchStoredResults ==
    \A r \in 1..Len(results) :
        /\ results[r].total_obtained = sum_awarded(results[r].per_question)
        /\ results[r].percentage =
              IF results[r].total_marks = 0 THEN 0
              ELSE RoundDiv(results[r].total_obtained * 10000, results[r].total_marks)

\* C15: with total_marks metadata the maximum mark of every question is
\* total_marks / question_count, so that the maxima of the ordering add up to
\* total_marks; without it the maximum is 1.0.
C15_PerQuestionMarkIsEqualShare ==
    \A d \in AllDetails :
        LET n == Len(eval_ordered_questions(answer_key_doc))
        IN  IF answer_key_doc.total_marks # 0
            THEN n * d.max_marks = 100 * answer_key_doc.total_marks
            ELSE d.max_marks = 100

\* C16: every scored question has a non-empty feedback string and a non-empty
\* reason code, in every branch and for every collaborator reply.
C16_FeedbackAndReasonNeverEmpty ==
    \A d \in AllDetails : d.feedback # <<>> /\ d.reason # ""

----------------------------------------------------------------------------
(* Claims about an evaluation run *)

\* the run has ended after it found both authoritative documents with text
RunEnded == runPc \in {"finished", "aborted_rubric"}

HasStoredResult(i) == \E r \in 1..Len(results) : results[r].student_filename = i

\* C17: an outage of the rubric or grading collaborator (unavailable, quota
\* exhausted, failing call) does not abort the run: when the run has ended,
\* every student it had to evaluate has a stored result.
C17_OutageLeavesEveryStudentAResult ==
    RunEnded =>
        \A i \in 1..Len(student_answer) :
            student_answer[i].evaluation_status # "completed" => HasStoredResult(i)

\* no question paper or no answer key is stored
DocumentMissing == ~qp_doc.present \/ ~ak_doc.present

\* C18: while the question paper or the answer key is missing, a run ends as
\* aborted for that reason, inserts no record into results and changes no
\* student_answer document.
C18_MissingDocumentTouchesNothing ==
    /\ [](DocumentMissing
            => /\ runPc \in {"start", "aborted_missing_document"}
               /\ results = <<>>)
    /\ [][DocumentMissing
            => /\ results' = results
               /\ student_answer' = student_answer]_vars

\* a run aborted for a missing question paper although the answer key, an
\* available collaborator and a student with text waiting to be graded exist
C18_Witness ==
    /\ runPc = "aborted_missing_document"
    /\ ~qp_doc.present
    /\ ak_doc.present /\ ak_doc.text # ""
    /\ gemini.is_available /\ ~gemini.quota_exhausted
    /\ \E i \in 1..Len(student_answer) :
          /\ student_answer[i].text # ""
          /\ student_answer[i].evaluation_status = NoneV

----------------------------------------------------------------------------
(* Claims about feedback generation *)

\* C19: a pass of generate_feedback_for_students never modifies a record
\* whose feedback_generated flag is set, so a pass that finds every record
\* flagged leaves the results collection unchanged.
C19_FlaggedRecordsAreNeverModified ==
    [][/\ \A i \in 1..Len(results) :
            results[i].feedback_generated => results'[i] = results[i]
       /\ (\A i \in 1..Len(results) : results[i].feedback_generated)
            => results' = results]_vars

\* two passes were made; the first one handled a record and left every
\* record flagged, the second one found nothing to do
C19_Witness ==
    /\ now = 2
    /\ Len(results) = 2
    /\ \A i \in 1..Len(results) :
          /\ results[i].feedback_generated
          /\ results[i].feedback_generated_at \in {0, 1}
    /\ \E i \in 1..Len(results) : results[i].feedback_generated_at = 1

\* the record has per-question results and every feedback string is empty
AllQuestionFeedbackEmpty(res) ==
    /\ res.per_question_type = "dict"
    /\ res.per_question # <<>>
    /\ \A i \in 1..Len(res.per_question) : res.per_question[i].v.feedback = <<>>

\* C20: a record whose per-question feedback strings are all empty is marked
\* done only with a text the collaborator returned: when the collaborator is
\* unavailable, raises or returns no text, the feedback stays empty and the
\* flag stays unset.
C20_FailureLeavesRecordUnflagged ==
    \A i \in 1..Len(results) :
        (AllQuestionFeedbackEmpty(results[i]) /\ results[i].feedback_generated)
            => results[i].feedback # <<>>

----------------------------------------------------------------------------
(* Claims about the key pool and _call_model *)

\* the step is a generate_content call that failed with the given signal
InvocationFails(signal) ==
    /\ invocations' = invocations + 1
    /\ last_invocation'.outcome = signal

\* the configured keys that are neither bad nor on cooldown after the step
UsableAfter ==
    { k \in Range(api_keys) : k \notin bad_keys' /\ key_cooldowns'[k] <= clock' }

\* C21: when a model call fails with a quota-exhaustion signal, the key in use
\* is put on cooldown for between 1 and 300 seconds; if another configured key
\* is neither bad nor on cooldown the processor switches to it in the same
\* step, without a backoff sleep; and no rotation ever selects a key whose
\* cooldown has not expired.
C21_QuotaCooldownAndRotation ==
    [][ /\ InvocationFails("quota") =>
            /\ key_cooldowns'[model] - clock \in 1..300
            /\ UsableAfter # {} =>
                  /\ model' \in UsableAfter
                  /\ model' # model
                  /\ current_key_idx' # current_key_idx
                  /\ sleeps' = sleeps
                  /\ clock' = clock
        /\ model' # model => key_cooldowns'[model'] <= clock'
      ]_vars

\* a quota error on the first of two keys made the processor switch to the
\* second one while the first is on cooldown
C21_Witness ==
    /\ last_invocation.outcome = "quota"
    /\ last_invocation.key = 1
    /\ model = 2
    /\ key_cooldowns[1] > clock
    /\ key_cooldowns[2] <= clock

\* the call in progress has not yet handed a response or an exception back
CallRunning == callPc \in {"attempt", "executor_exit"}

\* C22: a _call_model call never invokes the model more than max(1, retries)
\* times; when every attempt timed out the call ends by raising the last
\* timeout error after exactly max(1, retries) invocations, with one backoff
\* wait between consecutive attempts; and a call in progress can always take
\* its next step, so that it terminates.
C22_TimeoutRetriesAreBounded ==
    /\ invocations <= (IF retries < 1 THEN 1 ELSE retries)
    /\ (callPc = "raised" /\ timeouts > 0 /\ timeouts = invocations)
          => /\ invocations = (IF retries < 1 THEN 1 ELSE retries)
             /\ sleeps = invocations - 1
             /\ last_exc = "timeout"
    /\ CallRunning => ENABLED NextCall

\* the step is a failed generate_content call after which another key is the
\* configured one
RotationStep ==
    /\ InvocationFails("quota") \/ InvocationFails("auth")
    /\ model' # model

\* C26: a key rotation does not consume a retry attempt: after a quota or auth
\* error has made the processor switch to another key, the attempt counter is
\* where it was and the call goes on to invoke the model with the new key,
\* whatever the retries budget.
C26_RotationDoesNotConsumeAttempt ==
    [][ RotationStep => /\ attempt' = attempt
                        /\ callPc' = "attempt" ]_vars

\* C27: every model invocation is made with a key that, at the moment of the
\* invocation, is neither in bad_keys nor on an unexpired cooldown.
C27_InvocationsUseUsableKeys ==
    last_invocation.usable

----------------------------------------------------------------------------
(* Claims about the sort key *)

\* the label has a numeric or an alphabetic token
Parseable(label) ==
    \E i \in 1..Len(label) :
        IsDigit(label[i]) \/ LowerChar(label[i]) \in {"a", "b", "c", "d", "i", "q"}

\* C25: ordering a collection of labels by the key never raises, whatever the
\* pair of labels, and in the ordered collection no label without a numeric or
\* alphabetic token comes before a label that has one.
C25_SortByKeyNeverRaises ==
    sortPc = "done" =>
        /\ ~sort_result.raised
        /\ \A i, j \in 1..Len(sort_result.value) :
              (~Parseable(sort_result.value[i]) /\ Parseable(sort_result.value[j]))
                  => j < i

----------------------------------------------------------------------------
(* Claims about the structured parse *)

\* the collaborator is unavailable, fails, or returns malformed output
CollaboratorFails ==
    \/ model = NoModel
    \/ parse_reply \in {"raise", "not_json", "json_not_dict", "json_bad_answer_map"}

\* C23: whenever the structured-parse collaborator is unavailable, fails or
\* returns malformed output, the document (its OCR pages not empty) is
\* processed with the structure of the regex-based parser.
C23_FailedParseFallsBackToRegex ==
    (parsePc = "done" /\ ~pages.is_empty /\ CollaboratorFails)
        => parse_result.parser = "regex"

----------------------------------------------------------------------------
(* Claims about the Question Flattener *)

RECURSIVE LabelsOf(_)
RECURSIVE LabelsOfSubkeys(_, _)
RECURSIVE LabelsOfDict(_)
RECURSIVE LabelsOfList(_)

\* the labels of the sub-parts of a question, in document order
LabelsOfSubkeys(item, subkeys) ==
    IF subkeys = <<>> THEN <<>>
    ELSE (IF node_has(item, Head(subkeys))
          THEN LabelsOf(node_get(item, Head(subkeys))) ELSE <<>>)
         \o LabelsOfSubkeys(item, Tail(subkeys))

\* a dict of questions: each key is a label, followed by its sub-parts
LabelsOfDict(entries) ==
    IF entries = <<>> THEN <<>>
    ELSE <<strip(Head(entries).k)>>
         \o (IF Head(entries).v.t = "dict"
             THEN LabelsOfSubkeys(Head(entries).v, Subkeys) ELSE <<>>)
         \o LabelsOfDict(Tail(entries))

\* a list of questions: the id of each element (or the element itself when
\* it is a bare label), followed by its sub-parts; a nested list is walked
LabelsOfList(els) ==
    IF els = <<>> THEN <<>>
    ELSE LET el == Head(els).v
             lid == first_truthy(el, IdKeys)
         IN  (IF el.t = "dict"
              THEN (IF lid.found THEN <<strip(py_str(lid.v))>> ELSE <<>>)
                   \o LabelsOfSubkeys(el, Subkeys)
              ELSE IF el.t = "list" THEN LabelsOfList(el.kids)
              ELSE <<strip(el.s)>>)
             \o LabelsOfList(Tail(els))

LabelsOf(node) ==
    IF node.t = "dict" THEN LabelsOfDict(node.kids)
    ELSE IF node.t = "list" THEN LabelsOfList(node.kids)
    ELSE <<>>

RECURSIVE LabelsOfParts(_)
LabelsOfParts(entries) ==
    IF entries = <<>> THEN <<>>
    ELSE LET part == Head(entries).v
         IN  (IF part.t = "dict" /\ node_has(part, KeyQuestions)
                  /\ truthy(node_get(part, KeyQuestions))
              THEN LabelsOf(node_get(part, KeyQuestions))
              ELSE LabelsOf(part))
             \o LabelsOfParts(Tail(entries))

RECURSIVE FirstOccurrences(_, _)
FirstOccurrences(s, out) ==
    IF s = <<>> THEN out
    ELSE FirstOccurrences(Tail(s),
            IF Head(s) = <<>> \/ Head(s) \in Range(out) THEN out
            ELSE Append(out, Head(s)))

\* C24: the result is the depth-first, document-order sequence of the question
\* labels found at every nesting level of the parts structure, the sub-parts
\* of every question included, each label once at the place of its first
\* occurrence; and the argument is left as it was.
C24_FlattenIsDepthFirstOverAllLevels ==
    flatPc = "done" =>
        /\ flat = FirstOccurrences(
                     IF flat_parts.t = "dict" THEN LabelsOfParts(flat_parts.kids)
                     ELSE LabelsOf(flat_parts), <<>>)
        /\ parts_after = flat_parts

----------------------------------------------------------------------------
(* Claims about repeated evaluation runs and the feedback that follows *)

\* the results collection holds at most one record of each student document
OneResultPerStudent ==
    \A r1, r2 \in 1..Len(results) :
        results[r1].student_filename = results[r2].student_filename => r1 = r2

\* the number of result records of student document i
ResultsOf(recs, i) ==
    Cardinality({ r \in 1..Len(recs) : recs[r].student_filename = i })

\* C28: over any number of evaluate_student_answers runs the results
\* collection holds at most one record per student document, and no step
\* grades a student document whose evaluation_status is completed: its
\* document and its result records stay as they are.
C28_RerunsAreSafePerStudent ==
    /\ []OneResultPerStudent
    /\ [][\A i \in 1..Len(student_answer) :
             student_answer[i].evaluation_status = "completed"
                => /\ student_answer'[i] = student_answer[i]
                   /\ ResultsOf(results', i) = ResultsOf(results, i)]_vars

\* the step is a feedback pass made after a run
FeedbackPassStep == now' = now + 1 /\ runPc' = runPc

\* C29: a feedback pass in which the collaborator is available and does not
\* fail sets feedback_generated on every result record that
\* evaluate_student_answers has written (graded or failed_no_text).
C29_PassFlagsEveryWrittenResult ==
    [][FeedbackPassStep
         => \A i \in 1..Len(results) : results'[i].feedback_generated]_vars

----------------------------------------------------------------------------
(* Claims about the bounds of the stored scores *)

\* every question of a stored record got full marks
EveryAnswerCorrect(res) ==
    /\ res.per_question # <<>>
    /\ \A i \in 1..Len(res.per_question) : res.per_question[i].v.final_percent = 10000

\* C30: for every question count, total_marks value and combination of key
\* and student answers, each awarded mark is between 0 and the maximum of its
\* question, total_obtained is at most total_marks, percentage is between 0
\* and 100, and a student with every answer correct gets exactly 100.
C30_ScoresStayWithinBounds ==
    /\ \A d \in AllDetails : 0 <= d.awarded /\ d.awarded <= d.max_marks
    /\ \A r \in 1..Len(results) :
         /\ results[r].total_obtained <= results[r].total_marks
         /\ 0 <= results[r].percentage /\ results[r].percentage <= 10000
         /\ EveryAnswerCorrect(results[r]) => results[r].percentage = 10000

====
